---------------------------- MODULE Spec2Model ----------------------------
(***************************************************************************)
(* Day tracker (src/src/App.tsx): the time and streak helpers.             *)
(*                                                                         *)
(* Strings are sequences of one-character strings, so that split, Number,  *)
(* parseInt, padStart, trim and template concatenation are computed the    *)
(* way the JavaScript does them.  A JavaScript number is a record          *)
(* [nan, v]: NaN is [nan |-> TRUE, v |-> 0], the integer n is              *)
(* [nan |-> FALSE, v |-> n].  A Date is [null, time] with time the number  *)
(* of minutes since the epoch (every Date built here has zero seconds and  *)
(* milliseconds); an Invalid Date has time = NaN; `null` is the null       *)
(* reference returned instead of a Date.  An instant (`now`) is a number   *)
(* of minutes since the epoch as well.                                     *)
(*                                                                         *)
(* Environment assumptions: the host time zone has a fixed offset (a local *)
(* day is always 1440 minutes), and the clock reads made inside one        *)
(* synchronous call return the same instant.                               *)
(***************************************************************************)
EXTENDS Integers, Sequences, FiniteSets

VARIABLES
    now,        \* the instant read by `new Date()`, in minutes since the epoch
    start,      \* calculateDurationInMinutes / parseTime argument
    end,        \* calculateDurationInMinutes argument
    minutes,    \* formatDuration argument
    time24,     \* formatTo12Hour argument ("HH:MM" of an <input type=time>)
    time12,     \* a stored 12-hour string (Activity.startTime)
    days,       \* calculateStreaks argument: the Day list
    task,       \* calculateStreaks argument: the task filter or null; in the
                \* DayModal, the task of the add form
    ret,        \* the last call and the value it returned
    \* App (component state)
    selectedDay,        \* the Day the DayModal is open on, or null
    dayToDelete,        \* the date waiting for the delete confirmation, or null
    taskOptions,        \* the task catalog
    goal,               \* calculateGoalProgress argument
    \* DayModal (component state)
    currentActivities,  \* the working copy of the day's activities
    startTime,          \* the add form's start time input
    endTime,            \* the add form's end time input
    editingActivityId,  \* the id of the activity being edited, or null
    editedStartTime,    \* the edit row's start time input
    editedEndTime,      \* the edit row's end time input
    isCustomTask,       \* the add form takes typed text instead of a choice
    modalOps,           \* how many user operations the open DayModal has seen
    \* App and its children (component state), the browser
    notificationPermission, \* 'default', 'granted' or 'denied'
    goals,              \* the goal list
    storage,            \* localStorage: the items under the three keys
    effects,            \* the keys whose mirroring effect waits to run
    aiCall,             \* the generative-AI call in flight, if any
    toasts,             \* the toast of the last AI call, and what else it raised
    summary,            \* WeeklySummary: the summary shown, or null
    dailyPlan,          \* the plan of handleGeneratePlan, or null
    isPlanModalOpen,    \* the plan modal is shown
    coachingTips,       \* GoalTracker: the tips by goal id
    aiOps               \* how many user operations were made next to the AI calls

sideVars ==
    <<notificationPermission, goals, storage, effects, aiCall, toasts, summary,
      dailyPlan, isPlanModalOpen, coachingTips, aiOps>>
appVars == <<selectedDay, dayToDelete, taskOptions, goal, sideVars>>
modalVars ==
    <<currentActivities, startTime, endTime, editingActivityId,
      editedStartTime, editedEndTime, isCustomTask, modalOps>>

vars ==
    <<now, start, end, minutes, time24, time12, days, task, ret, appVars, modalVars>>

-----------------------------------------------------------------------------
(* JavaScript values *)

NaN == [nan |-> TRUE, v |-> 0]
Num(n) == [nan |-> FALSE, v |-> n]

\* the null reference where a string is expected (never a character)
NullStr == <<"null">>

\* !s for s : string | null
Falsy(s) == s = NullStr \/ s = <<>>

Digits == {"0", "1", "2", "3", "4", "5", "6", "7", "8", "9"}

DigitVal(c) ==
    CASE c = "0" -> 0 [] c = "1" -> 1 [] c = "2" -> 2 [] c = "3" -> 3
      [] c = "4" -> 4 [] c = "5" -> 5 [] c = "6" -> 6 [] c = "7" -> 7
      [] c = "8" -> 8 [] c = "9" -> 9

DigitChar(d) ==
    CASE d = 0 -> "0" [] d = 1 -> "1" [] d = 2 -> "2" [] d = 3 -> "3"
      [] d = 4 -> "4" [] d = 5 -> "5" [] d = 6 -> "6" [] d = 7 -> "7"
      [] d = 8 -> "8" [] d = 9 -> "9"

Min(S) == CHOOSE x \in S : \A y \in S : x <= y
Max(S) == CHOOSE x \in S : \A y \in S : x >= y

RECURSIVE DecVal(_)
DecVal(s) ==
    IF s = <<>> THEN 0
    ELSE DecVal(SubSeq(s, 1, Len(s) - 1)) * 10 + DigitVal(s[Len(s)])

\* String.prototype.split with a one-character separator
RECURSIVE Split(_, _)
SplitAt(s, sep, i) ==
    <<SubSeq(s, 1, i - 1)>> \o Split(SubSeq(s, i + 1, Len(s)), sep)

Split(s, sep) ==
    IF \A i \in 1..Len(s) : s[i] # sep THEN <<s>>
    ELSE SplitAt(s, sep, Min({i \in 1..Len(s) : s[i] = sep}))

\* Number(s) on the strings that occur here (digits, ':', letters; no sign,
\* exponent, radix prefix or white space): '' is 0, all digits is the
\* decimal value, anything else is NaN
Number(s) ==
    IF \A i \in 1..Len(s) : s[i] \in Digits THEN Num(DecVal(s)) ELSE NaN

\* parseInt(s, 10): the value of the longest prefix of digits, NaN if empty
DigitPrefixLen(s) ==
    IF \A i \in 1..Len(s) : s[i] \in Digits THEN Len(s)
    ELSE Min({i \in 1..Len(s) : s[i] \notin Digits}) - 1

ParseInt(s) ==
    IF DigitPrefixLen(s) = 0 THEN NaN
    ELSE Num(DecVal(SubSeq(s, 1, DigitPrefixLen(s))))

\* String(n) / `${n}` for a non-negative integer or NaN
RECURSIVE NatToString(_)
NatToString(n) ==
    IF n < 10 THEN <<DigitChar(n)>>
    ELSE NatToString(n \div 10) \o <<DigitChar(n % 10)>>

NumToString(x) == IF x.nan THEN <<"N", "a", "N">> ELSE NatToString(x.v)

\* s.padStart(2, '0')
PadStart2(s) ==
    IF Len(s) >= 2 THEN s
    ELSE IF Len(s) = 1 THEN <<"0">> \o s ELSE <<"0", "0">>

\* s.trim() (the only white space here is the space)
RECURSIVE Trim(_)
Trim(s) ==
    IF s = <<>> THEN s
    ELSE IF s[1] = " " THEN Trim(Tail(s))
    ELSE IF s[Len(s)] = " " THEN Trim(SubSeq(s, 1, Len(s) - 1))
    ELSE s

-----------------------------------------------------------------------------
(* Dates *)

NullDate == [null |-> TRUE, time |-> NaN]
DateOf(t) == [null |-> FALSE, time |-> t]

\* Date.UTC(year, monthIndex + 1, day) in days since 1970-01-01; month in
\* 1..12, any integer day (day 0 is the last day of the month before)
DaysFromCivil(y, m, d) ==
    LET yy  == IF m <= 2 THEN y - 1 ELSE y
        era == yy \div 400
        yoe == yy - era * 400
        mp  == IF m > 2 THEN m - 3 ELSE m + 9
        doy == (153 * mp + 2) \div 5 + d - 1
        doe == yoe * 365 + yoe \div 4 - yoe \div 100 + doy
    IN  era * 146097 + doe - 719468

\* getUTCFullYear / getUTCMonth + 1 / getUTCDate of a day number
CivilFromDays(z) ==
    LET zz  == z + 719468
        era == zz \div 146097
        doe == zz - era * 146097
        yoe == (doe - doe \div 1460 + doe \div 36524 - doe \div 146096) \div 365
        doy == doe - (365 * yoe + yoe \div 4 - yoe \div 100)
        mp  == (5 * doy + 2) \div 153
        d   == doy - (153 * mp + 2) \div 5 + 1
        m   == IF mp < 10 THEN mp + 3 ELSE mp - 9
        y   == yoe + era * 400 + (IF m <= 2 THEN 1 ELSE 0)
    IN  <<y, m, d>>

\* the day an instant lies on: getUTCFullYear/Month/Date, or the local date
\* that setHours keeps, all read off the day number
DayOf(n) == n \div 1440

\* now.setHours(hours, minutes, 0, 0): the local midnight of now's day plus
\* the given hours and minutes; NaN in either makes the Date invalid
SetHours(n, hours, mins) ==
    IF hours.nan \/ mins.nan THEN DateOf(NaN)
    ELSE DateOf(Num(DayOf(n) * 1440 + hours.v * 60 + mins.v))

-----------------------------------------------------------------------------
(* Helper functions, App.tsx 215-264 *)

AM == <<"A", "M">>
PM == <<"P", "M">>

\* modifier === m, for [time, modifier] = timeString.split(' ')
ModifierIs(parts, m) == Len(parts) >= 2 /\ parts[2] = m

\* if (modifier === 'PM' && hours < 12) hours += 12
AddNoon(hours, isPM) ==
    IF isPM /\ ~hours.nan /\ hours.v < 12 THEN Num(hours.v + 12) ELSE hours

\* if (modifier === 'AM' && hours === 12) hours = 0
ZeroMidnight(hours, isAM) ==
    IF isAM /\ hours = Num(12) THEN Num(0) ELSE hours

\* let [hours, minutes] = time.split(':').map(Number): a missing second
\* element is undefined, which the callers turn into NaN
HoursOf(hm) == Number(hm[1])
MinutesOf(hm) == IF Len(hm) >= 2 THEN Number(hm[2]) ELSE NaN

\* ZeroMidnight left out: "12 AM" stays hour 12
ParseParts_NoMidnightRule(parts, n) ==
    SetHours(n, AddNoon(HoursOf(Split(parts[1], ":")), ModifierIs(parts, PM)),
             MinutesOf(Split(parts[1], ":")))

ParseParts(parts, n) ==
    SetHours(n,
             ZeroMidnight(AddNoon(HoursOf(Split(parts[1], ":")), ModifierIs(parts, PM)),
                          ModifierIs(parts, AM)),
             MinutesOf(Split(parts[1], ":")))

\* parseTime without the "12 AM is hour 0" rule
parseTime_NoMidnightRule(timeString, n) ==
    IF Falsy(timeString) THEN NullDate
    ELSE ParseParts_NoMidnightRule(Split(timeString, " "), n)

parseTime(timeString, n) ==
    IF Falsy(timeString) THEN NullDate
    ELSE ParseParts(Split(timeString, " "), n)

\* (endDate.getTime() - startDate.getTime()) / (1000 * 60)
DateDiff(endDate, startDate) ==
    IF endDate.time.nan \/ startDate.time.nan THEN NaN
    ELSE Num(endDate.time.v - startDate.time.v)

\* if (diff < 0) diff += 24 * 60
Rollover(diff) ==
    IF ~diff.nan /\ diff.v < 0 THEN Num(diff.v + 24 * 60) ELSE diff

\* if (diff <= 0) diff += 24 * 60
Rollover_AtZero(diff) ==
    IF ~diff.nan /\ diff.v <= 0 THEN Num(diff.v + 24 * 60) ELSE diff

DurationBetween(startDate, endDate) ==
    IF startDate.null \/ endDate.null THEN Num(0)
    ELSE Rollover(DateDiff(endDate, startDate))

\* calculateDurationInMinutes without the midnight rollover
calculateDurationInMinutes_NoRollover(s, e, n) ==
    IF Falsy(s) \/ Falsy(e) THEN Num(0)
    ELSE DateDiff(parseTime(e, n), parseTime(s, n))

\* calculateDurationInMinutes rolling over on a difference of zero as well
calculateDurationInMinutes_RolloverAtZero(s, e, n) ==
    IF Falsy(s) \/ Falsy(e) THEN Num(0)
    ELSE Rollover_AtZero(DateDiff(parseTime(e, n), parseTime(s, n)))

calculateDurationInMinutes(s, e, n) ==
    IF Falsy(s) \/ Falsy(e) THEN Num(0)
    ELSE DurationBetween(parseTime(s, n), parseTime(e, n))

\* if (hours > 0) duration += `${hours}h `
HoursPart(hours) ==
    IF ~hours.nan /\ hours.v > 0 THEN NumToString(hours) \o <<"h", " ">> ELSE <<>>

\* if (mins > 0) duration += `${mins}m`
MinsPart(mins) ==
    IF ~mins.nan /\ mins.v > 0 THEN NumToString(mins) \o <<"m">> ELSE <<>>

\* Math.floor(minutes / 60) and Math.round(minutes % 60), of an integer or NaN
FloorHours(m) == IF m.nan THEN NaN ELSE Num(m.v \div 60)
RoundMins(m) == IF m.nan THEN NaN ELSE Num(m.v % 60)

\* formatDuration without the final trim()
formatDuration_NoTrim(m) ==
    IF ~m.nan /\ m.v < 1 THEN <<"0", "m">>
    ELSE HoursPart(FloorHours(m)) \o MinsPart(RoundMins(m))

formatDuration(m) ==
    IF ~m.nan /\ m.v < 1 THEN <<"0", "m">>
    ELSE Trim(HoursPart(FloorHours(m)) \o MinsPart(RoundMins(m)))

calculateDuration(s, e, n) == formatDuration(calculateDurationInMinutes(s, e, n))

\* `${minutes}` of [hours, minutes] = time24.split(':'): a missing second
\* element prints as "undefined"
MinutesText(hm) ==
    IF Len(hm) >= 2 THEN hm[2]
    ELSE <<"u", "n", "d", "e", "f", "i", "n", "e", "d">>

\* h >= 12 ? 'PM' : 'AM'
AmPm(h) == IF ~h.nan /\ h.v >= 12 THEN PM ELSE AM

\* h > 12 ? 'PM' : 'AM'
AmPm_NoonIsAM(h) == IF ~h.nan /\ h.v > 12 THEN PM ELSE AM

\* h % 12 || 12: 0 and NaN are falsy
FormattedHours(h) == IF h.nan \/ h.v % 12 = 0 THEN Num(12) ELSE Num(h.v % 12)

\* formatTo12Hour calling noon AM
formatTo12Hour_NoonIsAM(t24) ==
    NumToString(FormattedHours(ParseInt(Split(t24, ":")[1])))
        \o <<":">> \o MinutesText(Split(t24, ":"))
        \o <<" ">> \o AmPm_NoonIsAM(ParseInt(Split(t24, ":")[1]))

formatTo12Hour(t24) ==
    NumToString(FormattedHours(ParseInt(Split(t24, ":")[1])))
        \o <<":">> \o MinutesText(Split(t24, ":"))
        \o <<" ">> \o AmPm(ParseInt(Split(t24, ":")[1]))

ConvertParts(parts) ==
    PadStart2(NumToString(
        ZeroMidnight(AddNoon(HoursOf(Split(parts[1], ":")), ModifierIs(parts, PM)),
                     ModifierIs(parts, AM))))
        \o <<":">> \o PadStart2(NumToString(MinutesOf(Split(parts[1], ":"))))

convertTo24Hour(t12) ==
    IF Falsy(t12) THEN <<>> ELSE ConvertParts(Split(t12, " "))

\* the tail of the second calculateDuration: '0m' for exactly 0, else the parts
LegacyText(diff) ==
    IF diff = Num(0) THEN <<"0", "m">>
    ELSE Trim(HoursPart(FloorHours(diff)) \o MinsPart(RoundMins(diff)))

LegacyBetween(startDate, endDate) ==
    IF startDate.null \/ endDate.null THEN <<>>
    ELSE LegacyText(Rollover(DateDiff(endDate, startDate)))

\* the second definition of calculateDuration in the file (App.tsx 1441-1455)
calculateDurationLegacy(s, e, n) ==
    IF Falsy(s) \/ Falsy(e) THEN <<>>
    ELSE LegacyBetween(parseTime(s, n), parseTime(e, n))

-----------------------------------------------------------------------------
(* calculateStreaks, App.tsx 194-213.  Date values are midnights UTC, kept  *)
(* as day numbers: getTime() / (1000 * 60 * 60 * 24).  The date strings are *)
(* the well-formed 'YYYY-MM-DD' values of a date input.                     *)

NoStreaks == [currentStreak |-> 0, longestStreak |-> 0]

\* the null reference where a Day list is expected (never a list of Days)
NullDay == [null |-> TRUE]
NullDays == <<NullDay>>

\* the filter of line 196 keeping every day that has any activity at all
HasTask_AnyActivity(day, t) == Len(day.activities) > 0

\* day.activities.some(activity => activity.task === t)
HasTask(day, t) == \E i \in 1..Len(day.activities) : day.activities[i].task = t

\* line 196 without the filter
RelevantDays_Unfiltered(ds, t) == ds

\* task ? days.filter(...) : days
RelevantDays(ds, t) ==
    IF Falsy(t) THEN ds ELSE SelectSeq(ds, LAMBDA day : HasTask(day, t))

\* new Date(Date.UTC(year, month - 1, dayOfMonth)) of [year, month,
\* dayOfMonth] = day.date.split('-').map(Number)
DateUTC(ymd) == DaysFromCivil(Number(ymd[1]).v, Number(ymd[2]).v, Number(ymd[3]).v)

DayDate(day) == DateUTC(Split(day.date, "-"))

\* relevantDays.map(day => ...)
RECURSIVE MapDates(_)
MapDates(ds) ==
    IF ds = <<>> THEN <<>> ELSE <<DayDate(Head(ds))>> \o MapDates(Tail(ds))

\* .sort((a, b) => a.getTime() - b.getTime()): ascending
RECURSIVE InsertAsc(_, _)
InsertAsc(x, sorted) ==
    IF sorted = <<>> THEN <<x>>
    ELSE IF x <= Head(sorted) THEN <<x>> \o sorted
    ELSE <<Head(sorted)>> \o InsertAsc(x, Tail(sorted))

\* line 198 without the sort: the dates in the order of the records
SortAsc_AsGiven(xs) == xs

RECURSIVE SortAsc(_)
SortAsc(xs) ==
    IF xs = <<>> THEN <<>> ELSE InsertAsc(Head(xs), SortAsc(Tail(xs)))

Max2(a, b) == IF a >= b THEN a ELSE b

\* the loop of line 202 without the Math.max of line 203 after it
RECURSIVE LongestLoop_NoFinalMax(_, _, _, _)
LongestLoop_NoFinalMax(dates, i, longestStreak, currentConsecutive) ==
    IF i > Len(dates) THEN longestStreak
    ELSE IF dates[i] - dates[i - 1] = 1
         THEN LongestLoop_NoFinalMax(dates, i + 1, longestStreak,
                                     currentConsecutive + 1)
         ELSE LongestLoop_NoFinalMax(dates, i + 1,
                                     Max2(longestStreak, currentConsecutive), 1)

\* the loop of line 202 from index i on (1-based), then line 203
RECURSIVE LongestLoop(_, _, _, _)
LongestLoop(dates, i, longestStreak, currentConsecutive) ==
    IF i > Len(dates) THEN Max2(longestStreak, currentConsecutive)
    ELSE IF dates[i] - dates[i - 1] = 1
         THEN LongestLoop(dates, i + 1, longestStreak, currentConsecutive + 1)
         ELSE LongestLoop(dates, i + 1, Max2(longestStreak, currentConsecutive), 1)

\* without the loop of lines 201-203
LongestStreak_NoLoop(dates) == 1

\* lines 200-203 (dates is not empty)
LongestStreak(dates) == LongestLoop(dates, 2, 1, 1)

\* the loop of line 209 without its break: every 1-day gap is counted
RECURSIVE CurrentLoop_NoBreak(_, _, _)
CurrentLoop_NoBreak(dates, i, activeCurrentStreak) ==
    IF i < 1 THEN activeCurrentStreak
    ELSE IF dates[i + 1] - dates[i] = 1
         THEN CurrentLoop_NoBreak(dates, i - 1, activeCurrentStreak + 1)
         ELSE CurrentLoop_NoBreak(dates, i - 1, activeCurrentStreak)

\* the loop of line 209 from index i down (1-based)
RECURSIVE CurrentLoop(_, _, _)
CurrentLoop(dates, i, activeCurrentStreak) ==
    IF i < 1 THEN activeCurrentStreak
    ELSE IF dates[i + 1] - dates[i] = 1
         THEN CurrentLoop(dates, i - 1, activeCurrentStreak + 1)
         ELSE activeCurrentStreak

\* new Date(Date.UTC(today.getUTCFullYear(), getUTCMonth(), getUTCDate()))
UTCOf(c) == DaysFromCivil(c[1], c[2], c[3])
TodayUTC(n) == UTCOf(CivilFromDays(DayOf(n)))

\* yesterdayUTC.setUTCDate(todayUTC.getUTCDate() - 1)
SetUTCDateBack(c) == DaysFromCivil(c[1], c[2], c[3] - 1)
YesterdayUTC(n) == SetUTCDateBack(CivilFromDays(TodayUTC(n)))

\* line 207 accepting any last date up to today
IsAlive_AnyPast(lastDate, n) == lastDate <= TodayUTC(n)

\* line 207
IsAlive(lastDate, n) == lastDate = TodayUTC(n) \/ lastDate = YesterdayUTC(n)

\* lines 204-211
CurrentStreak(dates, n) ==
    IF IsAlive(dates[Len(dates)], n)
    THEN CurrentLoop(dates, Len(dates) - 1, 1) ELSE 0

StreaksOf(dates, n) ==
    [currentStreak |-> CurrentStreak(dates, n),
     longestStreak |-> LongestStreak(dates)]

StreaksOfRelevant(relevantDays, n) ==
    IF Len(relevantDays) = 0 THEN NoStreaks
    ELSE StreaksOf(SortAsc(MapDates(relevantDays)), n)

\* line 195: !days || days.length === 0
calculateStreaks(ds, t, n) ==
    IF ds = NullDays \/ Len(ds) = 0 THEN NoStreaks
    ELSE StreaksOfRelevant(RelevantDays(ds, t), n)

-----------------------------------------------------------------------------
(* The component state while only a helper function is exercised *)

\* the null reference where an activity id is expected (ids are clock
\* readings, never negative)
NullId == -1

NoGoal == [id |-> 0, task |-> NullStr, frequency |-> 0, period |-> "week"]

\* no DayModal is mounted
ModalUnmounted ==
    /\ currentActivities = <<>>
    /\ startTime = <<>>
    /\ endTime = <<>>
    /\ editingActivityId = NullId
    /\ editedStartTime = <<>>
    /\ editedEndTime = <<>>
    /\ isCustomTask = FALSE
    /\ modalOps = 0

\* an item localStorage does not have (getItem returns null)
MissingItem == [kind |-> "missing"]
NoStorage ==
    [dayTrackerData |-> MissingItem, dayTrackerTasks |-> MissingItem,
     dayTrackerGoals |-> MissingItem]

\* dailyPlan is null
NullPlan == <<NullStr>>

NoAICall == [kind |-> "none"]

\* the state of lines 1060-1064 and of the children that call the AI, before
\* any of it is used
SideIdle ==
    /\ notificationPermission = "default"
    /\ goals = <<>>
    /\ storage = NoStorage
    /\ effects = {}
    /\ aiCall = NoAICall
    /\ toasts = <<>>
    /\ summary = NullStr
    /\ dailyPlan = NullPlan
    /\ isPlanModalOpen = FALSE
    /\ coachingTips = <<>>
    /\ aiOps = 0

AppIdle ==
    /\ SideIdle
    /\ selectedDay = NullDay
    /\ dayToDelete = NullStr
    /\ taskOptions = <<>>
    /\ goal = NoGoal
    /\ ModalUnmounted

-----------------------------------------------------------------------------
(* Inputs of the time helpers *)

\* how many of MinuteSamples the clock strings range over
MaxMinuteSamples == 5
MinuteSamples == <<0, 59, 10, 50, 30, 1, 45, 15>>
MinutePool ==
    {MinuteSamples[i] : i \in 1..Min({MaxMinuteSamples, Len(MinuteSamples)})}

\* the 12-hour clock string "H:MM AM|PM"
Clock12(h, m, mk) ==
    NatToString(h) \o <<":">> \o PadStart2(NatToString(m)) \o <<" ">> \o mk

ValidTimes == {Clock12(h, m, mk) : h \in 1..12, m \in MinutePool, mk \in {AM, PM}}

\* the 24-hour reading of a valid clock string, in minutes after midnight
MinutesOfDay(s) ==
    LET t == CHOOSE t \in (1..12) \X MinutePool \X {AM, PM} :
                 s = Clock12(t[1], t[2], t[3])
    IN  ((t[1] % 12) + (IF t[3] = PM THEN 12 ELSE 0)) * 60 + t[2]

NoSeparator     == <<"9", "0", "0", " ", "A", "M">>
HourNotNumeric  == <<"X", ":", "0", "0", " ", "A", "M">>
MinuteNotNumeric == <<"9", ":", "X", "X", " ", "A", "M">>
MarkerMissing   == <<"9", ":", "0", "0">>
MarkerOther     == <<"9", ":", "0", "0", " ", "X", "M">>
MarkerLowerCase == <<"9", ":", "0", "0", " ", "p", "m">>

MalformedTimes ==
    {NoSeparator, HourNotNumeric, MinuteNotNumeric,
     MarkerMissing, MarkerOther, MarkerLowerCase}

TimeInputs == ValidTimes \cup MalformedTimes \cup {NullStr}

\* two readings of the clock, on different days
NowPool ==
    {DaysFromCivil(2024, 12, 31) * 1440, DaysFromCivil(2025, 1, 1) * 1440 + 1439}

NoCall == [op |-> "none"]

-----------------------------------------------------------------------------
(* The time helpers applied to every pair of inputs *)

InitTime ==
    /\ now \in NowPool
    /\ start \in TimeInputs
    /\ end \in TimeInputs
    /\ minutes = Num(0)
    /\ time24 = <<"0", "0", ":", "0", "0">>
    /\ time12 = NullStr
    /\ days = <<>>
    /\ task = NullStr
    /\ ret = NoCall
    /\ AppIdle

ParseTime ==
    /\ ret' = [op |-> "parseTime", val |-> parseTime(start, now)]
    /\ UNCHANGED <<now, start, end, minutes, time24, time12, days, task, appVars, modalVars>>

CalculateDurationInMinutes ==
    /\ ret' = [op |-> "calculateDurationInMinutes",
               val |-> calculateDurationInMinutes(start, end, now)]
    /\ UNCHANGED <<now, start, end, minutes, time24, time12, days, task, appVars, modalVars>>

CalculateDuration ==
    /\ ret' = [op |-> "calculateDuration",
               val |-> calculateDuration(start, end, now)]
    /\ UNCHANGED <<now, start, end, minutes, time24, time12, days, task, appVars, modalVars>>

CalculateDurationLegacy ==
    /\ ret' = [op |-> "calculateDurationLegacy",
               val |-> calculateDurationLegacy(start, end, now)]
    /\ UNCHANGED <<now, start, end, minutes, time24, time12, days, task, appVars, modalVars>>

NextTime ==
    \/ ParseTime
    \/ CalculateDurationInMinutes
    \/ CalculateDuration
    \/ CalculateDurationLegacy

SpecTime == InitTime /\ [][NextTime]_vars

-----------------------------------------------------------------------------
(* Properties of the time helpers *)

BothValid == start \in ValidTimes /\ end \in ValidTimes
EitherMalformed == start \in MalformedTimes \/ end \in MalformedTimes
ZeroMinutes == <<"0", "m">>

\* C1: for every pair of valid 12-hour clock strings,
\* calculateDurationInMinutes returns an integer d with 0 <= d < 1440.
C1_DurationInRange ==
    (ret.op = "calculateDurationInMinutes" /\ BothValid)
        => (~ret.val.nan /\ ret.val.v \in Int /\ 0 <= ret.val.v /\ ret.val.v < 1440)

\* the longest duration there is: from 12:00 AM to 11:59 PM
C1_Witness ==
    /\ ret.op = "calculateDurationInMinutes"
    /\ start = Clock12(12, 0, AM)
    /\ end = Clock12(11, 59, PM)
    /\ ret.val = Num(1439)

\* C2: for valid clock strings the duration is (minutesOfDay(end) -
\* minutesOfDay(start)) modulo 1440: exactly 1440 is added to a negative raw
\* difference and nothing is added otherwise.
C2_DurationIsDifferenceMod1440 ==
    (ret.op = "calculateDurationInMinutes" /\ BothValid)
        => LET raw == MinutesOfDay(end) - MinutesOfDay(start)
           IN  /\ ret.val = Num(raw % 1440)
               /\ raw < 0 => ret.val = Num(raw + 1440)
               /\ raw >= 0 => ret.val = Num(raw)

\* start 11:50 PM, end 12:10 AM gives 20
C2_Witness ==
    /\ ret.op = "calculateDurationInMinutes"
    /\ start = Clock12(11, 50, PM)
    /\ end = Clock12(12, 10, AM)
    /\ ret.val = Num(20)

\* C3: for every valid clock string parseTime yields the same minute and the
\* 24-hour hour: 12 AM -> 0, 1..11 AM unchanged, 12 PM -> 12, 1..11 PM ->
\* H + 12; the hour is in 0..23 (and the Date lies on the day of `now`).
C3_ParseTimeHourMapping ==
    (ret.op = "parseTime" /\ start \in ValidTimes)
        => \A h \in 1..12, m \in MinutePool, mk \in {AM, PM} :
             start = Clock12(h, m, mk)
               => LET H == IF mk = AM THEN (IF h = 12 THEN 0 ELSE h)
                           ELSE (IF h = 12 THEN 12 ELSE h + 12)
                      t == ret.val.time
                  IN  /\ ~ret.val.null /\ ~t.nan
                      /\ t.v \div 1440 = now \div 1440
                      /\ (t.v % 1440) \div 60 = H
                      /\ t.v % 60 = m
                      /\ H \in 0..23

\* 12:30 AM is half an hour after the local midnight of now's day
C3_Witness ==
    /\ ret.op = "parseTime"
    /\ start = Clock12(12, 30, AM)
    /\ ret.val = DateOf(Num((now \div 1440) * 1440 + 30))

\* C4 (as claimed): parseTime returns null for every malformed time string.
C4_MalformedParsesToNull ==
    (ret.op = "parseTime" /\ start \in MalformedTimes) => ret.val.null

\* C5 (as claimed): if either string is malformed the duration is exactly 0
\* and its formatting is a printable (non-empty) duration string.
C5_MalformedGivesZero ==
    /\ (ret.op = "calculateDurationInMinutes" /\ EitherMalformed)
           => ret.val = Num(0)
    /\ (ret.op = "calculateDuration" /\ EitherMalformed)
           => ret.val # <<>>

\* C6 (as claimed): calculateDurationInMinutes returns 0 when the end time is
\* null and when start and end are the same valid clock time, and
\* calculateDuration (either definition) renders both cases as "0m".
NoDuration == start \in ValidTimes /\ (end = NullStr \/ end = start)

C6_NoDurationIsZeroMinutes ==
    /\ (ret.op = "calculateDurationInMinutes" /\ NoDuration) => ret.val = Num(0)
    /\ (ret.op = "calculateDuration" /\ NoDuration) => ret.val = ZeroMinutes
    /\ (ret.op = "calculateDurationLegacy" /\ NoDuration) => ret.val = ZeroMinutes

-----------------------------------------------------------------------------
(* formatDuration and the 24-hour / 12-hour conversions on every input *)

\* formatDuration is applied to 0..MaxMinutes
MaxMinutes == 1500

\* the "HH:MM" value of a time input
Clock24(h, m) ==
    PadStart2(NatToString(h)) \o <<":">> \o PadStart2(NatToString(m))

ValidTimes24 == {Clock24(h, m) : h \in 0..23, m \in 0..59}

InitFormat ==
    /\ now \in NowPool
    /\ start = NullStr
    /\ end = NullStr
    /\ \/ minutes \in {Num(m) : m \in 0..MaxMinutes} /\ time24 = Clock24(0, 0)
       \/ minutes = Num(0) /\ time24 \in ValidTimes24
    /\ time12 = NullStr
    /\ days = <<>>
    /\ task = NullStr
    /\ ret = NoCall
    /\ AppIdle

FormatDuration ==
    /\ ret' = [op |-> "formatDuration", val |-> formatDuration(minutes)]
    /\ UNCHANGED <<now, start, end, minutes, time24, time12, days, task, appVars, modalVars>>

\* handleAddActivity / handleUpdateActivity store formatTo12Hour(time input)
FormatTo12Hour ==
    /\ time12' = formatTo12Hour(time24)
    /\ ret' = [op |-> "formatTo12Hour", val |-> time12']
    /\ UNCHANGED <<now, start, end, minutes, time24, days, task, appVars, modalVars>>

\* handleStartEditing reads the stored string back with convertTo24Hour
ConvertTo24Hour ==
    /\ ret' = [op |-> "convertTo24Hour", val |-> convertTo24Hour(time12)]
    /\ UNCHANGED <<now, start, end, minutes, time24, time12, days, task, appVars, modalVars>>

NextFormat ==
    \/ FormatDuration
    \/ FormatTo12Hour
    \/ ConvertTo24Hour

SpecFormat == InitFormat /\ [][NextFormat]_vars

\* C7: for every integer m >= 0, formatDuration(m) is "0m" when m = 0 and
\* otherwise "{h}h {r}m" for h = floor(m / 60), r = m mod 60, with the hour
\* segment omitted when h = 0 and the minute segment omitted when r = 0; it
\* is never empty for m > 0 (60 -> "1h", 61 -> "1h 1m", 45 -> "45m").
C7_FormatDurationSegments ==
    ret.op = "formatDuration"
        => LET m == minutes.v
               h == m \div 60
               r == m % 60
               hourSeg == IF h = 0 THEN <<>> ELSE NatToString(h) \o <<"h">>
               minSeg  == IF r = 0 THEN <<>> ELSE NatToString(r) \o <<"m">>
               both    == IF hourSeg # <<>> /\ minSeg # <<>>
                          THEN hourSeg \o <<" ">> \o minSeg
                          ELSE hourSeg \o minSeg
           IN  /\ m = 0 => ret.val = ZeroMinutes
               /\ m > 0 => ret.val = both /\ ret.val # <<>>
               /\ m = 60 => ret.val = <<"1", "h">>
               /\ m = 61 => ret.val = <<"1", "h", " ", "1", "m">>
               /\ m = 45 => ret.val = <<"4", "5", "m">>

\* a whole number of hours: the minute segment is omitted
C7_Witness ==
    /\ ret.op = "formatDuration"
    /\ minutes = Num(120)
    /\ ret.val = <<"2", "h">>

\* C8: for every valid HH:MM, convertTo24Hour(formatTo12Hour(HH:MM)) is
\* HH:MM again, including 00:xx and 12:xx.
C8_RoundTrip24 ==
    (ret.op = "convertTo24Hour" /\ time12 # NullStr) => ret.val = time24

\* 12:05 is stored as "12:05 PM" and read back as "12:05"
C8_Witness ==
    /\ ret.op = "convertTo24Hour"
    /\ time24 = Clock24(12, 5)
    /\ time12 = Clock12(12, 5, PM)
    /\ ret.val = Clock24(12, 5)

-----------------------------------------------------------------------------
(* calculateStreaks on every day list *)

\* the longest day list
MaxDays == 3
\* how many of DateSamples the day lists range over
MaxDates == 4

\* the 'YYYY-MM-DD' string
DateString(y, m, d) ==
    NatToString(y) \o <<"-">> \o PadStart2(NatToString(m))
                   \o <<"-">> \o PadStart2(NatToString(d))

DateSamples ==
    << DateString(2025, 1, 1), DateString(2025, 1, 2), DateString(2025, 1, 4),
       DateString(2024, 12, 31), DateString(2025, 1, 3), DateString(2025, 1, 5) >>
DatePool == {DateSamples[i] : i \in 1..Min({MaxDates, Len(DateSamples)})}

Exercise == <<"E", "x", "e", "r", "c", "i", "s", "e">>
Lunch == <<"L", "u", "n", "c", "h">>

Activity(id, t, from, to) ==
    [id |-> id, task |-> t, startTime |-> from, endTime |-> to]

LunchAt1 == Activity(1, Lunch, Clock12(1, 0, PM), Clock12(1, 30, PM))
ExerciseAt6 == Activity(2, Exercise, Clock12(6, 0, PM), Clock12(7, 0, PM))

\* a day with lunch and exercise
DayOn(date) == [date |-> date, activities |-> <<LunchAt1, ExerciseAt6>>]
\* a day with lunch only
LunchDay == [date |-> DateSamples[2], activities |-> <<LunchAt1>>]
\* a day that has no activity yet
EmptyDay == [date |-> DateSamples[1], activities |-> <<>>]

DayRecords == {DayOn(dt) : dt \in DatePool} \cup {LunchDay, EmptyDay}

DayLists == UNION {[1..k -> DayRecords] : k \in 0..MaxDays}

\* today is 2024-12-31 .. 2025-01-06, early and late in the UTC day
FirstToday == DaysFromCivil(2024, 12, 31)
LastToday == DaysFromCivil(2025, 1, 6)
NowPoolStreaks == {d * 1440 + m : d \in FirstToday..LastToday, m \in {0, 1439}}

InitStreaks ==
    /\ now \in NowPoolStreaks
    /\ start = NullStr
    /\ end = NullStr
    /\ minutes = Num(0)
    /\ time24 = Clock24(0, 0)
    /\ time12 = NullStr
    /\ days \in DayLists \cup {NullDays}
    /\ task \in {NullStr, Exercise}
    /\ ret = NoCall
    /\ AppIdle

CalculateStreaks ==
    /\ ret' = [op |-> "calculateStreaks", val |-> calculateStreaks(days, task, now)]
    /\ UNCHANGED <<now, start, end, minutes, time24, time12, days, task, appVars, modalVars>>

NextStreaks == CalculateStreaks

SpecStreaks == InitStreaks /\ [][NextStreaks]_vars

-----------------------------------------------------------------------------
(* Properties of calculateStreaks *)

\* the calendar from 2024-12-31 (day FirstToday) to 2025-01-06, written out:
\* Calendar[k + 1] is the date one calendar day after Calendar[k]
Calendar ==
    << DateString(2024, 12, 31), DateString(2025, 1, 1),
       DateString(2025, 1, 2), DateString(2025, 1, 3), DateString(2025, 1, 4),
       DateString(2025, 1, 5), DateString(2025, 1, 6) >>

CalendarIndex(date) == CHOOSE k \in 1..Len(Calendar) : Calendar[k] = date
TodayIndex == (now \div 1440) - FirstToday + 1

\* a day qualifies when there is no filter or it has an activity of the task
Qualifies(day) ==
    /\ day # NullDay
    /\ task = NullStr \/ \E i \in 1..Len(day.activities) : day.activities[i].task = task

QualifyingAt(k) ==
    {i \in 1..Len(days) : Qualifies(days[i]) /\ CalendarIndex(days[i].date) = k}

RECURSIVE Copies(_, _)
Copies(k, c) == IF c = 0 THEN <<>> ELSE <<k>> \o Copies(k, c - 1)

\* the qualifying dates in calendar order, one entry per qualifying record
RECURSIVE QualifyingFrom(_)
QualifyingFrom(k) ==
    IF k > Len(Calendar) THEN <<>>
    ELSE Copies(k, Cardinality(QualifyingAt(k))) \o QualifyingFrom(k + 1)

QualifyingDates == QualifyingFrom(1)

\* the stretch q[i..j] is a run: each date one calendar day after the one before
IsRun(q, i, j) == \A k \in i..(j - 1) : q[k + 1] = q[k] + 1

LongestRun(q) ==
    IF q = <<>> THEN 0
    ELSE Max({n \in 1..Len(q) : \E i \in 1..(Len(q) - n + 1) :
                                      IsRun(q, i, i + n - 1)})

\* C9: longestStreak is the length of the longest run of qualifying dates in
\* which each date is exactly one calendar day after the previous one; it is
\* at least 1 when a qualifying date exists and 0 when none does.
C9_LongestStreakIsLongestRun ==
    ret.op = "calculateStreaks"
        => /\ ret.val.longestStreak = LongestRun(QualifyingDates)
           /\ QualifyingDates # <<>> => ret.val.longestStreak >= 1
           /\ QualifyingDates = <<>> => ret.val.longestStreak = 0

\* dates 2025-01-01, 2025-01-02, 2025-01-04 give 2
C9_Witness ==
    /\ ret.op = "calculateStreaks"
    /\ task = Exercise
    /\ days = << DayOn(DateString(2025, 1, 4)), DayOn(DateString(2025, 1, 2)),
                 DayOn(DateString(2025, 1, 1)) >>
    /\ ret.val.longestStreak = 2

LastQualifying == QualifyingDates[Len(QualifyingDates)]

\* one fixed 'today' every call is compared with
ReferenceNow == FirstToday * 1440

\* C10: currentStreak is 0 whenever the most recent qualifying date is neither
\* today nor yesterday (UTC), whether it lies further back or after today and
\* however long the runs are; longestStreak does not depend on today (it is
\* the one computed with today = 2024-12-31, whatever today is).
C10_StaleStreakIsZero ==
    ret.op = "calculateStreaks"
        => /\ (QualifyingDates # <<>> /\ LastQualifying # TodayIndex
                   /\ LastQualifying # TodayIndex - 1)
                => ret.val.currentStreak = 0
           /\ ret.val.longestStreak
                = calculateStreaks(days, task, ReferenceNow).longestStreak

\* dates 2025-01-01, 2025-01-02, 2025-01-04 with today = 2025-01-06
C10_Witness ==
    /\ ret.op = "calculateStreaks"
    /\ now = LastToday * 1440 + 1439
    /\ task = NullStr
    /\ days = << DayOn(DateString(2025, 1, 1)), DayOn(DateString(2025, 1, 2)),
                 DayOn(DateString(2025, 1, 4)) >>
    /\ ret.val = [currentStreak |-> 0, longestStreak |-> 2]

\* the length of the run that ends at the last element of q
RunEndingAtLast(q) ==
    Max({n \in 1..Len(q) : IsRun(q, Len(q) - n + 1, Len(q))})

LastIsTodayOrYesterday ==
    /\ QualifyingDates # <<>>
    /\ LastQualifying = TodayIndex \/ LastQualifying = TodayIndex - 1

\* C11: when the most recent qualifying date is today or yesterday (UTC),
\* currentStreak is the length of the run of consecutive calendar dates that
\* ends at that most recent date: counting backward stops at the first gap
\* that is not exactly one day.
C11_CurrentStreakIsLastRun ==
    (ret.op = "calculateStreaks" /\ LastIsTodayOrYesterday)
        => ret.val.currentStreak = RunEndingAtLast(QualifyingDates)

\* dates 2025-01-01, 2025-01-02, 2025-01-04 with today = 2025-01-04 give 1
C11_Witness ==
    /\ ret.op = "calculateStreaks"
    /\ DayOf(now) = DaysFromCivil(2025, 1, 4)
    /\ task = NullStr
    /\ days = << DayOn(DateString(2025, 1, 1)), DayOn(DateString(2025, 1, 2)),
                 DayOn(DateString(2025, 1, 4)) >>
    /\ ret.val.currentStreak = 1

\* C12: calculateStreaks returns {currentStreak: 0, longestStreak: 0} whenever
\* no day qualifies: for an empty or missing day list with any filter, and for
\* a day list in which no day has an activity of the filtered task.
C12_NoQualifyingDayGivesZero ==
    (ret.op = "calculateStreaks" /\ QualifyingDates = <<>>) => ret.val = NoStreaks

\* a lunch-only day and a day without activities, filtered on Exercise
C12_Witness ==
    /\ ret.op = "calculateStreaks"
    /\ task = Exercise
    /\ days = <<LunchDay, EmptyDay>>
    /\ ret.val = NoStreaks

\* the days of ds that have an activity of the task t
RECURSIVE OnlyWith(_, _)
OnlyWith(ds, t) ==
    IF ds = <<>> THEN <<>>
    ELSE (IF \E i \in 1..Len(Head(ds).activities) : Head(ds).activities[i].task = t
          THEN <<Head(ds)>> ELSE <<>>) \o OnlyWith(Tail(ds), t)

\* ds without its i-th day
Without(ds, i) == SubSeq(ds, 1, i - 1) \o SubSeq(ds, i + 1, Len(ds))

\* ds with the activities of every day removed
Stripped(ds) == [i \in 1..Len(ds) |-> [date |-> ds[i].date, activities |-> <<>>]]

\* C13: with a non-null filter t the result is the one of the days that have
\* an activity of task t, taken alone: adding a day without task t, or
\* removing one, never changes it.  With a null filter every day counts, days
\* without activities included: the activities do not matter at all.
C13_FilterCountsExactlyTaskDays ==
    (ret.op = "calculateStreaks" /\ days # NullDays)
        => /\ task # NullStr
                => /\ ret.val = calculateStreaks(OnlyWith(days, task), NullStr, now)
                   /\ \A d \in {LunchDay, EmptyDay} :
                        calculateStreaks(Append(days, d), task, now) = ret.val
                   /\ \A i \in 1..Len(days) :
                        ~Qualifies(days[i])
                          => calculateStreaks(Without(days, i), task, now) = ret.val
           /\ task = NullStr
                => /\ ret.val = calculateStreaks(Stripped(days), NullStr, now)
                   /\ days # <<>> => ret.val.longestStreak >= 1

\* 2025-01-01 with exercise, 2025-01-02 with lunch only, 2025-01-04 with
\* exercise, today 2025-01-04: the lunch day does not join 01-01 to a run
C13_Witness ==
    /\ ret.op = "calculateStreaks"
    /\ DayOf(now) = DaysFromCivil(2025, 1, 4)
    /\ task = Exercise
    /\ days = << DayOn(DateString(2025, 1, 1)), LunchDay,
                 DayOn(DateString(2025, 1, 4)) >>
    /\ ret.val = [currentStreak |-> 1, longestStreak |-> 1]

\* the orders a list of n records can be given in
Orders(n) == {p \in [1..n -> 1..n] : \A i, j \in 1..n : p[i] = p[j] => i = j}

Reordered(ds, p) == [i \in 1..Len(ds) |-> ds[p[i]]]

\* the instants of the UTC date of `now`
SameUTCDate == {n \in NowPoolStreaks : DayOf(n) = DayOf(now)}

\* C14: calculateStreaks is deterministic in (the Day records, the filter,
\* today's UTC date): the same records in any other order, at any other time
\* of the same UTC date, give the same pair.
C14_OrderAndTimeOfDayIrrelevant ==
    (ret.op = "calculateStreaks" /\ days # NullDays)
        => \A p \in Orders(Len(days)), n \in SameUTCDate :
             calculateStreaks(Reordered(days, p), task, n) = ret.val

\* the records latest first, one minute before the end of 2025-01-04
C14_Witness ==
    /\ ret.op = "calculateStreaks"
    /\ now = DaysFromCivil(2025, 1, 4) * 1440 + 1439
    /\ task = Exercise
    /\ days = << DayOn(DateString(2025, 1, 4)), DayOn(DateString(2025, 1, 2)),
                 DayOn(DateString(2025, 1, 1)) >>
    /\ ret.val = [currentStreak |-> 1, longestStreak |-> 2]

\* a qualifying record of a date that an earlier qualifying record has already
RepeatsDate(ds, i) ==
    /\ Qualifies(ds[i])
    /\ \E j \in 1..(i - 1) : Qualifies(ds[j]) /\ ds[j].date = ds[i].date

\* ds from its i-th record on, each qualifying date kept once
RECURSIVE DedupedFrom(_, _)
DedupedFrom(ds, i) ==
    IF i > Len(ds) THEN <<>>
    ELSE (IF RepeatsDate(ds, i) THEN <<>> ELSE <<ds[i]>>) \o DedupedFrom(ds, i + 1)

\* C15 (as claimed): calculateStreaks deduplicates qualifying dates before
\* walking them: a list in which a qualifying date appears in more than one
\* Day record gives the same pair as the list with that date appearing once.
C15_DuplicateDatesCountOnce ==
    (ret.op = "calculateStreaks" /\ days # NullDays)
        => ret.val = calculateStreaks(DedupedFrom(days, 1), task, now)

-----------------------------------------------------------------------------
(* App: the Day collection, App.tsx 1078-1124.  A local calendar date is    *)
(* kept as its day number, like the UTC dates of calculateStreaks.          *)

OfficeMeetingScrum == <<"O", "f", "f", "i", "c", "e", " ", "M", "e", "e", "t", "i", "n", "g", " ", "S", "c", "r", "u", "m">>

\* days.some(d => d.date === date)
HasDate(ds, date) == \E i \in 1..Len(ds) : ds[i].date = date

\* new Date(date + 'T00:00:00'): the day number of the local date
LocalDate(date) == DateUTC(Split(date, "-"))

\* getDay(): 0 = Sunday .. 6 = Saturday (1970-01-01 was a Thursday)
GetDay(d) == (d + 4) % 7

\* lines 1099-1114: the activity list of a new Day, ids from Date.now()
ScrumActivities(weekday, n) ==
    IF weekday >= 1 /\ weekday <= 4
    THEN <<Activity(n, OfficeMeetingScrum, Clock12(12, 30, PM), Clock12(1, 0, PM))>>
    ELSE IF weekday = 5
         THEN <<Activity(n, OfficeMeetingScrum, Clock12(12, 0, PM), Clock12(12, 30, PM))>>
         ELSE <<>>

\* lines 1096-1119: the Day that handleAddDay opens the DayModal on
NewDay(date, n) ==
    [date |-> date, activities |-> ScrumActivities(GetDay(LocalDate(date)), n)]

\* .sort((a, b) => new Date(b.date).getTime() - new Date(a.date).getTime()):
\* latest date first, equal dates in their order
RECURSIVE InsertDesc(_, _)
InsertDesc(x, sorted) ==
    IF sorted = <<>> THEN <<x>>
    ELSE IF LocalDate(x.date) >= LocalDate(Head(sorted).date) THEN <<x>> \o sorted
    ELSE <<Head(sorted)>> \o InsertDesc(x, Tail(sorted))

RECURSIVE SortDesc(_)
SortDesc(ds) ==
    IF ds = <<>> THEN <<>> ELSE InsertDesc(Head(ds), SortDesc(Tail(ds)))

\* the map of line 1084 replacing every record
ReplaceDate_Every(prevDays, updatedDay) ==
    [i \in 1..Len(prevDays) |-> updatedDay]

\* prevDays.map(d => d.date === updatedDay.date ? updatedDay : d)
ReplaceDate(prevDays, updatedDay) ==
    [i \in 1..Len(prevDays) |->
        IF prevDays[i].date = updatedDay.date THEN updatedDay ELSE prevDays[i]]

\* handleSaveDay appending whether or not the date has a record
handleSaveDay_AlwaysAppend(prevDays, updatedDay) ==
    SortDesc(Append(prevDays, updatedDay))

\* the updater of lines 1082-1086
handleSaveDay(prevDays, updatedDay) ==
    IF HasDate(prevDays, updatedDay.date)
    THEN SortDesc(ReplaceDate(prevDays, updatedDay))
    ELSE SortDesc(Append(prevDays, updatedDay))

\* the filter of line 1124 keeping nothing
WithoutDate_KeepNone(prevDays, date) == <<>>

\* prevDays.filter(day => day.date !== dayToDelete)
WithoutDate(prevDays, date) == SelectSeq(prevDays, LAMBDA day : day.date # date)

\* how many of AppDateSamples the date input ranges over
MaxAppDates == 3
\* a Friday, a Saturday, a Wednesday, a Sunday
AppDateSamples ==
    << DateString(2025, 1, 3), DateString(2025, 1, 4),
       DateString(2025, 1, 1), DateString(2025, 1, 5) >>
AppDates == {AppDateSamples[i] : i \in 1..Min({MaxAppDates, Len(AppDateSamples)})}

\* the collections read from local storage: none, or two days saved earlier
StoredDays == {<<>>, <<DayOn(AppDateSamples[2]), DayOn(AppDateSamples[3])>>}

\* the working copies a DayModal opened on `day` hands to onSave
SavedActivities(day) ==
    {day.activities, <<>>, <<LunchAt1>>, <<LunchAt1, ExerciseAt6>>}

InitApp ==
    /\ now \in NowPool
    /\ start = NullStr
    /\ end = NullStr
    /\ minutes = Num(0)
    /\ time24 = Clock24(0, 0)
    /\ time12 = NullStr
    /\ days \in StoredDays
    /\ task = NullStr
    /\ ret = NoCall
    /\ AppIdle

\* the arguments of the helper functions
paramVars == <<start, end, minutes, time24, time12, goal, sideVars>>
helperVars == <<paramVars, task>>

HandleAddDay ==
    \E date \in AppDates :
        /\ ret' = [op |-> "handleAddDay", val |-> date]
        /\ selectedDay' = IF HasDate(days, date) THEN selectedDay ELSE NewDay(date, now)
        /\ UNCHANGED <<now, days, dayToDelete, taskOptions, helperVars, modalVars>>

\* a click on the card of a Day of the collection
HandleOpenModal ==
    \E i \in 1..Len(days) :
        /\ selectedDay' = days[i]
        /\ ret' = [op |-> "handleOpenModal", val |-> days[i].date]
        /\ UNCHANGED <<now, days, dayToDelete, taskOptions, helperVars, modalVars>>

\* the DayModal is removed from the page: its state is gone
Unmounted ==
    /\ task' = NullStr
    /\ currentActivities' = <<>>
    /\ startTime' = <<>>
    /\ endTime' = <<>>
    /\ editingActivityId' = NullId
    /\ editedStartTime' = <<>>
    /\ editedEndTime' = <<>>
    /\ isCustomTask' = FALSE
    /\ modalOps' = 0

\* the DayModal's Cancel
HandleCloseModal ==
    /\ selectedDay # NullDay
    /\ selectedDay' = NullDay
    /\ Unmounted
    /\ ret' = [op |-> "handleCloseModal", val |-> selectedDay.date]
    /\ UNCHANGED <<now, days, dayToDelete, taskOptions, paramVars>>

\* the DayModal's handleSave: onSave({...day, activities}) and onClose()
HandleSaveDay ==
    /\ selectedDay # NullDay
    /\ \E activities \in SavedActivities(selectedDay) :
           days' = handleSaveDay(days, [date |-> selectedDay.date,
                                        activities |-> activities])
    /\ selectedDay' = NullDay
    /\ ret' = [op |-> "handleSaveDay", val |-> selectedDay.date]
    /\ UNCHANGED <<now, dayToDelete, taskOptions, helperVars, modalVars>>

\* the delete button of a card
HandleDeleteRequest ==
    \E i \in 1..Len(days) :
        /\ dayToDelete' = days[i].date
        /\ ret' = [op |-> "handleDeleteRequest", val |-> days[i].date]
        /\ UNCHANGED <<now, days, selectedDay, taskOptions, helperVars, modalVars>>

\* the ConfirmationModal's Cancel: setDayToDelete(null)
CancelDelete ==
    /\ dayToDelete # NullStr
    /\ dayToDelete' = NullStr
    /\ ret' = [op |-> "cancelDelete", val |-> dayToDelete]
    /\ UNCHANGED <<now, days, selectedDay, taskOptions, helperVars, modalVars>>

\* the ConfirmationModal's "Yes, Delete" (shown while dayToDelete is set)
HandleConfirmDelete ==
    /\ dayToDelete # NullStr
    /\ days' = WithoutDate(days, dayToDelete)
    /\ dayToDelete' = NullStr
    /\ ret' = [op |-> "handleConfirmDelete", val |-> dayToDelete]
    /\ UNCHANGED <<now, selectedDay, taskOptions, helperVars, modalVars>>

NextApp ==
    \/ HandleAddDay
    \/ HandleOpenModal
    \/ HandleCloseModal
    \/ HandleSaveDay
    \/ HandleDeleteRequest
    \/ CancelDelete
    \/ HandleConfirmDelete

SpecApp == InitApp /\ [][NextApp]_vars

-----------------------------------------------------------------------------
(* Properties of the Day collection *)

UniqueDates(ds) == \A i, j \in 1..Len(ds) : ds[i].date = ds[j].date => i = j

\* a handleAddDay for a date that has a record opens nothing, and a
\* handleSaveDay for a date that has a record adds no record
RejectsOrReplaces ==
    /\ (ret'.op = "handleAddDay" /\ HasDate(days, ret'.val))
           => (selectedDay' = selectedDay /\ days' = days)
    /\ (ret'.op = "handleSaveDay" /\ HasDate(days, ret'.val))
           => (Len(days') = Len(days) /\ HasDate(days', ret'.val))

\* C16: starting from a Day collection with unique dates, after any sequence
\* of handleAddDay, DayModal save (handleSaveDay) and confirmed delete, no two
\* Day records share a date: handleAddDay for a date that already has a
\* record is rejected without opening a new record, and handleSaveDay
\* replaces the record of the same date instead of appending a second one.
C16_DatesStayUnique == [](UniqueDates(days)) /\ [][RejectsOrReplaces]_vars

\* the record of 2025-01-04 replaced by a save, next to the record of
\* 2025-01-01
C16_Witness ==
    /\ ret = [op |-> "handleSaveDay", val |-> AppDateSamples[2]]
    /\ days = << [date |-> AppDateSamples[2], activities |-> <<LunchAt1>>],
                 DayOn(AppDateSamples[3]) >>

-----------------------------------------------------------------------------
(* DayModal, App.tsx 337-460.  The generative-AI task suggestion of line    *)
(* 353 is not part of this model.                                           *)

WakeUp == <<"W", "a", "k", "e", " ", "u", "p">>
Washroom == <<"W", "a", "s", "h", "r", "o", "o", "m">>
Sleep == <<"S", "l", "e", "e", "p">>
SmallNap == <<"S", "m", "a", "l", "l", " ", "N", "a", "p">>
DrinkWater == <<"D", "r", "i", "n", "k", " ", "W", "a", "t", "e", "r">>
TakeBath == <<"T", "a", "k", "e", " ", "B", "a", "t", "h">>

\* lines 27-31
initialTaskOptions ==
    << WakeUp,
       Washroom,
       Exercise,
       <<"B", "r", "e", "a", "k", "f", "a", "s", "t">>,
       <<"V", "i", "d", "e", "o", " ", "c", "a", "l", "l">>,
       <<"O", "f", "f", "i", "c", "e", " ", "w", "o", "r", "k">>,
       <<"R", "e", "s", "t">>,
       Lunch,
       Sleep,
       SmallNap,
       <<"R", "e", "a", "d", " ", "b", "o", "o", "k">>,
       <<"C", "a", "l", "l">>,
       <<"D", "i", "n", "n", "e", "r">>,
       <<"W", "a", "t", "c", "h", " ", "T", "V">>,
       <<"E", "d", "i", "t", "i", "n", "g", " ", "y", "o", "u", "T", "u", "b", "e", " ", "V", "i", "d", "e", "o">>,
       DrinkWater,
       OfficeMeetingScrum,
       TakeBath,
       <<"S", "e", "l", "f", " ", "L", "e", "a", "r", "n", "i", "n", "g">> >>

\* line 348
pointInTimeTasks == <<WakeUp, Sleep, DrinkWater>>

\* list.includes(x)
Includes(list, x) == \E i \in 1..Len(list) : list[i] = x

\* list[0] || ''
FirstOrEmpty(list) == IF list = <<>> THEN <<>> ELSE list[1]

\* list.filter(opt => opt !== x)
FilterOut(list, x) == SelectSeq(list, LAMBDA opt : opt # x)

\* currentActivities.some(a => a.task === t)
SomeTask(activities, t) == \E i \in 1..Len(activities) : activities[i].task = t

\* lines 463-466 (and 378-381)
filteredTaskOptions(activities, options) ==
    IF SomeTask(activities, WakeUp) THEN FilterOut(options, WakeUp) ELSE options

\* `${String(now.getHours()).padStart(2, '0')}:${String(now.getMinutes())...}`
HHMM(n) == Clock24((n % 1440) \div 60, n % 60)

\* let endH = h, endM = m + k; if (endM >= 60) { endH += 1; endM -= 60; }
\* if (endH >= 24) endH = 0 (when wraps); then the padded "HH:MM"
PlusK(m, k) == IF m.nan THEN NaN ELSE Num(m.v + k)
Carries(endM) == ~endM.nan /\ endM.v >= 60
CarriedM(endM) == IF Carries(endM) THEN Num(endM.v - 60) ELSE endM
CarriedH(h, endM) == IF Carries(endM) /\ ~h.nan THEN Num(h.v + 1) ELSE h
WrappedH(endH, wraps) ==
    IF wraps /\ ~endH.nan /\ endH.v >= 24 THEN Num(0) ELSE endH

FormattedEnd(h, endM, wraps) ==
    PadStart2(NumToString(WrappedH(CarriedH(h, endM), wraps)))
        \o <<":">> \o PadStart2(NumToString(CarriedM(endM)))

PlusMinutes(hm, k, wraps) == FormattedEnd(HoursOf(hm), PlusK(MinutesOf(hm), k), wraps)

\* the effect of lines 410-419: the end time while the task is Washroom
WashroomEffect(t, st, et) ==
    IF t = Washroom THEN PlusMinutes(Split(st, ":"), 4, TRUE) ELSE et

\* h >= 3 && h < 9
InMorning(h) == ~h.nan /\ h.v >= 3 /\ h.v < 9

\* currentActivities.length > 0 && lastTask === t
LastTaskIs(activities, t) ==
    activities # <<>> /\ activities[Len(activities)].task = t

\* the effect of lines 421-460: the task it sets, or the task as it is
SuggestedTask(t, st, activities) ==
    IF ~InMorning(HoursOf(Split(st, ":"))) \/ ~LastTaskIs(activities, t) THEN t
    ELSE IF t = WakeUp THEN Washroom
    ELSE IF t = Washroom THEN Exercise
    ELSE IF t = Exercise THEN TakeBath
    ELSE t

\* the task once the effects have stopped setting it
RECURSIVE SettledTask(_, _, _)
SettledTask(t, st, activities) ==
    IF SuggestedTask(t, st, activities) = t THEN t
    ELSE SettledTask(SuggestedTask(t, st, activities), st, activities)

\* the end time after the renders that follow a change of task or start time:
\* both effects run, and run again while the second one changes the task
RECURSIVE SettledEnd(_, _, _, _)
SettledEnd(t, st, et, activities) ==
    IF SuggestedTask(t, st, activities) = t THEN WashroomEffect(t, st, et)
    ELSE SettledEnd(SuggestedTask(t, st, activities), st,
                    WashroomEffect(t, st, et), activities)

\* the end time after a render in which task and start time are as before
\* (only the effect of lines 421-460 runs first)
SettledEndSameForm(t, st, et, activities) ==
    IF SuggestedTask(t, st, activities) = t THEN et
    ELSE SettledEnd(SuggestedTask(t, st, activities), st, et, activities)

\* the end time after the render that follows setTask(t) (from oldTask)
EndAfterSetTask(oldTask, t, st, et, activities) ==
    IF t = oldTask THEN SettledEndSameForm(t, st, et, activities)
    ELSE SettledEnd(t, st, et, activities)

\* the comparator of lines 369-374 and 398-403
compareStart(timeA, timeB) ==
    IF timeA.null \/ timeB.null THEN Num(0) ELSE DateDiff(timeA, timeB)

Compare(a, b, n) == compareStart(parseTime(a.startTime, n), parseTime(b.startTime, n))

\* comparefn(a, b) > 0 (false for NaN)
Greater(a, b, n) == ~Compare(a, b, n).nan /\ Compare(a, b, n).v > 0

\* Array.prototype.sort on a consistent comparator: ascending, equal elements
\* in their order
RECURSIVE InsertByStart(_, _, _)
InsertByStart(x, sorted, n) ==
    IF sorted = <<>> THEN <<x>>
    ELSE IF Greater(x, Head(sorted), n)
         THEN <<Head(sorted)>> \o InsertByStart(x, Tail(sorted), n)
         ELSE <<x>> \o sorted

RECURSIVE SortByStart(_, _)
SortByStart(activities, n) ==
    IF activities = <<>> THEN <<>>
    ELSE InsertByStart(Head(activities), SortByStart(Tail(activities), n), n)

\* the start time parses to a valid Date
ValidStart(a, n) ==
    ~parseTime(a.startTime, n).null /\ ~parseTime(a.startTime, n).time.nan

\* the comparator is a consistent comparison function for the elements: they
\* all have a valid time, or the valid times are all equal (then every pair
\* compares as 0 or NaN)
Consistent(activities, n) ==
    \/ \A i \in 1..Len(activities) : ValidStart(activities[i], n)
    \/ \A i, j \in 1..Len(activities) :
         (ValidStart(activities[i], n) /\ ValidStart(activities[j], n))
            => Compare(activities[i], activities[j], n) = Num(0)

\* the results of activities.sort(comparator): the stable ascending order,
\* and any order at all when the comparator is not consistent (ECMAScript
\* leaves the order to the implementation then)
SortOutcomes(activities, n) ==
    IF Consistent(activities, n) THEN {SortByStart(activities, n)}
    ELSE {Reordered(activities, p) : p \in Orders(Len(activities))}

\* endTime: showEndTime ? formatTo12Hour(endTime) : null
EndTimeOf(shown, et) == IF shown THEN formatTo12Hour(et) ELSE NullStr

\* line 368: the id is Date.now(), showEndTime is computed from the task as
\* typed (line 349), the stored task is the trimmed one
newActivity(n, t, st, et) ==
    Activity(n, Trim(t), formatTo12Hour(st), EndTimeOf(~Includes(pointInTimeTasks, t), et))

\* handleAddNewTask, line 1125
handleAddNewTask(options, newTask) ==
    IF Includes(options, newTask) THEN options ELSE Append(options, newTask)

\* lines 393-397
EditedActivity(act, id, est, eet) ==
    IF act.id = id
    THEN [act EXCEPT !.startTime = formatTo12Hour(est),
                     !.endTime = EndTimeOf(~Includes(pointInTimeTasks, act.task), eet)]
    ELSE act

EditedActivities(activities, id, est, eet) ==
    [i \in 1..Len(activities) |-> EditedActivity(activities[i], id, est, eet)]

\* prev.filter(act => act.id !== id)
WithoutId(activities, id) == SelectSeq(activities, LAMBDA act : act.id # id)

-----------------------------------------------------------------------------
(* The DayModal from the moment it is mounted on a Day until it is closed *)

\* the longest working list
MaxActivities == 3
\* how many user operations (inputs, adds, edits, deletes) are followed in
\* one open DayModal before it is saved or closed
MaxModalOps == 5
\* how often the clock advances while the modal is open
MaxTicks == 1
\* how many of TimeValueSamples the time inputs range over
MaxTimeValues == 2
\* how many of TaskChoiceSamples the task select ranges over
MaxTaskChoices == 1
\* how many of CustomTextSamples are typed as a custom task
MaxCustomTexts == 2

\* Saturday 2025-01-04, 08:00 local time
FirstNowModal == DaysFromCivil(2025, 1, 4) * 1440 + 8 * 60

\* the value of a time input: "HH:MM", or '' when the field is cleared
TimeValueSamples == <<Clock24(9, 0), <<>>, Clock24(23, 58), Clock24(8, 0)>>
TimeValues == {TimeValueSamples[i] : i \in 1..Min({MaxTimeValues, Len(TimeValueSamples)})}

TaskChoiceSamples == <<Exercise, WakeUp, Sleep, Washroom>>
TaskChoices == {TaskChoiceSamples[i] : i \in 1..Min({MaxTaskChoices, Len(TaskChoiceSamples)})}

CustomTextSamples ==
    << <<"S", "l", "e", "e", "p", " ">>,
       <<"W", "a", "k", "e", " ", "u", "p", " ">>,
       <<" ">>,
       <<"Y", "o", "g", "a">> >>
CustomTexts == {CustomTextSamples[i] : i \in 1..Min({MaxCustomTexts, Len(CustomTextSamples)})}

\* the Days the modal is opened on: a new Day of handleAddDay (a date without
\* a record) or a Day of the collection (handleOpenModal)
OpenableDays(ds, n) ==
    {NewDay(date, n) : date \in {d \in AppDates : ~HasDate(ds, d)}}
        \cup {ds[i] : i \in 1..Len(ds)}

\* the useState initial values of lines 338-346, then the effects
InitModal ==
    /\ now = FirstNowModal
    /\ start = NullStr
    /\ end = NullStr
    /\ minutes = Num(0)
    /\ time24 = Clock24(0, 0)
    /\ time12 = NullStr
    /\ days \in StoredDays
    /\ ret = NoCall
    /\ selectedDay \in OpenableDays(days, now)
    /\ dayToDelete = NullStr
    /\ taskOptions = initialTaskOptions
    /\ goal = NoGoal
    /\ SideIdle
    /\ currentActivities = selectedDay.activities
    /\ startTime = HHMM(now)
    /\ task = SettledTask(FirstOrEmpty(taskOptions), startTime, currentActivities)
    /\ endTime = SettledEnd(FirstOrEmpty(taskOptions), startTime, HHMM(now + 30),
                            currentActivities)
    /\ editingActivityId = NullId
    /\ editedStartTime = <<>>
    /\ editedEndTime = <<>>
    /\ isCustomTask = FALSE
    /\ modalOps = 0

\* the DayModal is open and takes one more user operation
Mounted ==
    /\ selectedDay # NullDay
    /\ modalOps < MaxModalOps
    /\ modalOps' = modalOps + 1

appFixed == <<days, selectedDay, dayToDelete, paramVars>>
editVars == <<editingActivityId, editedStartTime, editedEndTime>>

\* setTask(t) and the effects of the render after it
TaskSet(t) ==
    /\ task' = SettledTask(t, startTime, currentActivities)
    /\ endTime' = EndAfterSetTask(task, t, startTime, endTime, currentActivities)

\* the task select's onChange
SetTask ==
    /\ Mounted /\ ~isCustomTask
    /\ \E opt \in TaskChoices :
          /\ Includes(filteredTaskOptions(currentActivities, taskOptions), opt)
          /\ opt # task
          /\ TaskSet(opt)
          /\ ret' = NoCall
    /\ UNCHANGED <<now, appFixed, taskOptions, currentActivities, startTime,
                   editVars, isCustomTask>>

\* "+ Add Custom Task", line 508
StartCustomTask ==
    /\ Mounted /\ ~isCustomTask
    /\ isCustomTask' = TRUE
    /\ TaskSet(<<>>)
    /\ ret' = NoCall
    /\ UNCHANGED <<now, appFixed, taskOptions, currentActivities, startTime, editVars>>

\* the custom task's Cancel, line 490
CancelCustomTask ==
    /\ Mounted /\ isCustomTask
    /\ isCustomTask' = FALSE
    /\ TaskSet(FirstOrEmpty(taskOptions))
    /\ ret' = NoCall
    /\ UNCHANGED <<now, appFixed, taskOptions, currentActivities, startTime, editVars>>

\* the custom task input's onChange, line 483
TypeCustomTask ==
    /\ Mounted /\ isCustomTask
    /\ \E text \in CustomTexts :
          /\ text # task
          /\ TaskSet(text)
          /\ ret' = NoCall
    /\ UNCHANGED <<now, appFixed, taskOptions, currentActivities, startTime,
                   editVars, isCustomTask>>

\* lines 525-541: the end time the start input's onChange sets
EndOnStartChange(t, newStart, et) ==
    IF t = Washroom THEN PlusMinutes(Split(newStart, ":"), 4, FALSE)
    ELSE IF t = SmallNap THEN PlusMinutes(Split(newStart, ":"), 20, TRUE)
    ELSE et

\* the start time input's onChange, lines 522-542, and the effects
ChangeStartTime ==
    /\ Mounted
    /\ \E newStart \in TimeValues :
          /\ newStart # startTime
          /\ startTime' = newStart
          /\ task' = SettledTask(task, newStart, currentActivities)
          /\ endTime' = SettledEnd(task, newStart,
                                   EndOnStartChange(task, newStart, endTime),
                                   currentActivities)
          /\ ret' = NoCall
    /\ UNCHANGED <<now, appFixed, taskOptions, currentActivities, editVars, isCustomTask>>

\* the end time input's onChange, line 545 (shown while showEndTime)
ChangeEndTime ==
    /\ Mounted /\ ~Includes(pointInTimeTasks, task)
    /\ \E newEnd \in TimeValues :
          /\ newEnd # endTime
          /\ endTime' = newEnd
          /\ ret' = NoCall
    /\ UNCHANGED <<now, appFixed, taskOptions, currentActivities, task, startTime,
                   editVars, isCustomTask>>

\* lines 361-366 without the check for a second 'Wake up'
AddRejected_NoWakeUpCheck(t, activities) == Trim(t) = <<>>

\* lines 361-366: the early returns
AddRejected(t, activities) ==
    Trim(t) = <<>> \/ (Trim(t) = WakeUp /\ SomeTask(activities, WakeUp))

\* lines 367-384 for one result of the sort
Added(updatedActivities) ==
    /\ currentActivities' = updatedActivities
    /\ taskOptions' = handleAddNewTask(taskOptions, Trim(task))
    /\ TaskSet(FirstOrEmpty(filteredTaskOptions(updatedActivities, taskOptions)))
    /\ ret' = [op |-> "handleAddActivity",
               val |-> <<newActivity(now, task, startTime, endTime)>>]

HandleAddActivity ==
    /\ Mounted
    /\ Len(currentActivities) < MaxActivities
    /\ IF AddRejected(task, currentActivities)
       THEN /\ ret' = [op |-> "handleAddActivity", val |-> <<>>]
            /\ UNCHANGED <<currentActivities, taskOptions, task, endTime>>
       ELSE \E updatedActivities \in
                 SortOutcomes(Append(currentActivities,
                                     newActivity(now, task, startTime, endTime)), now) :
               Added(updatedActivities)
    /\ UNCHANGED <<now, appFixed, startTime, editVars, isCustomTask>>

\* the effect of lines 421-460 after the working list has changed
ListChanged(activities) ==
    /\ currentActivities' = activities
    /\ task' = SettledTask(task, startTime, activities)
    /\ endTime' = SettledEndSameForm(task, startTime, endTime, activities)

HandleDeleteActivity ==
    /\ Mounted
    /\ \E i \in 1..Len(currentActivities) :
          /\ ListChanged(WithoutId(currentActivities, currentActivities[i].id))
          /\ ret' = [op |-> "handleDeleteActivity", val |-> currentActivities[i].id]
    /\ UNCHANGED <<now, appFixed, taskOptions, startTime, editVars, isCustomTask>>

HandleStartEditing ==
    /\ Mounted
    /\ \E i \in 1..Len(currentActivities) :
          /\ editingActivityId' = currentActivities[i].id
          /\ editedStartTime' = convertTo24Hour(currentActivities[i].startTime)
          /\ editedEndTime' = convertTo24Hour(currentActivities[i].endTime)
          /\ ret' = [op |-> "handleStartEditing", val |-> currentActivities[i].id]
    /\ UNCHANGED <<now, appFixed, taskOptions, currentActivities, task, startTime,
                   endTime, isCustomTask>>

\* an activity is shown as the row being edited
EditRowShown ==
    Mounted /\ \E i \in 1..Len(currentActivities) :
                   currentActivities[i].id = editingActivityId

\* the edited end time input is shown in the row
EditedEndShown ==
    \E i \in 1..Len(currentActivities) :
        /\ currentActivities[i].id = editingActivityId
        /\ ~Includes(pointInTimeTasks, currentActivities[i].task)

EditingCancelled ==
    /\ editingActivityId' = NullId
    /\ editedStartTime' = <<>>
    /\ editedEndTime' = <<>>

HandleCancelEditing ==
    /\ EditRowShown
    /\ EditingCancelled
    /\ ret' = [op |-> "handleCancelEditing", val |-> editingActivityId]
    /\ UNCHANGED <<now, appFixed, taskOptions, currentActivities, task, startTime,
                   endTime, isCustomTask>>

ChangeEditedStartTime ==
    /\ EditRowShown
    /\ \E t \in TimeValues :
          /\ t # editedStartTime
          /\ editedStartTime' = t
          /\ ret' = NoCall
    /\ UNCHANGED <<now, appFixed, taskOptions, currentActivities, task, startTime,
                   endTime, editingActivityId, editedEndTime, isCustomTask>>

ChangeEditedEndTime ==
    /\ EditRowShown /\ EditedEndShown
    /\ \E t \in TimeValues :
          /\ t # editedEndTime
          /\ editedEndTime' = t
          /\ ret' = NoCall
    /\ UNCHANGED <<now, appFixed, taskOptions, currentActivities, task, startTime,
                   endTime, editingActivityId, editedStartTime, isCustomTask>>

\* the activities that handleUpdateActivity rewrites
EditedOnes(activities, id) == SelectSeq(activities, LAMBDA act : act.id = id)

HandleUpdateActivity ==
    /\ EditRowShown
    /\ \E updatedActivities \in
            SortOutcomes(EditedActivities(currentActivities, editingActivityId,
                                          editedStartTime, editedEndTime), now) :
          ListChanged(updatedActivities)
    /\ EditingCancelled
    /\ ret' = [op |-> "handleUpdateActivity",
               val |-> EditedOnes(EditedActivities(currentActivities, editingActivityId,
                                                   editedStartTime, editedEndTime),
                                  editingActivityId)]
    /\ UNCHANGED <<now, appFixed, taskOptions, startTime, isCustomTask>>

\* "Add to Dashboard": onSave({...day, activities: currentActivities}), which
\* is handleSaveDay, and onClose()
HandleSave ==
    /\ selectedDay # NullDay
    /\ days' = handleSaveDay(days, [date |-> selectedDay.date,
                                    activities |-> currentActivities])
    /\ selectedDay' = NullDay
    /\ Unmounted
    /\ ret' = [op |-> "handleSave", val |-> selectedDay.date]
    /\ UNCHANGED <<now, dayToDelete, taskOptions, paramVars>>

\* the clock advances
Tick ==
    /\ selectedDay # NullDay
    /\ now < FirstNowModal + MaxTicks
    /\ now' = now + 1
    /\ UNCHANGED <<start, end, minutes, time24, time12, days, task, ret, appVars,
                   modalVars>>

NextModal ==
    \/ SetTask
    \/ StartCustomTask
    \/ CancelCustomTask
    \/ TypeCustomTask
    \/ ChangeStartTime
    \/ ChangeEndTime
    \/ HandleAddActivity
    \/ HandleDeleteActivity
    \/ HandleStartEditing
    \/ HandleCancelEditing
    \/ ChangeEditedStartTime
    \/ ChangeEditedEndTime
    \/ HandleUpdateActivity
    \/ HandleSave
    \/ HandleCloseModal
    \/ Tick

SpecModal == InitModal /\ [][NextModal]_vars

-----------------------------------------------------------------------------
(* Properties of the DayModal *)

UniqueIds(activities) ==
    \A i, j \in 1..Len(activities) : activities[i].id = activities[j].id => i = j

\* C17 (as claimed): activity ids are unique within a Day: after handleAddDay
\* (which may pre-insert a scrum activity) and any handleAddActivity
\* operations, with ids read from a clock that never goes backward but may
\* return the same value twice, no two activities of the working list or of
\* a saved Day have the same id.
C17_ActivityIdsUnique ==
    /\ UniqueIds(currentActivities)
    /\ \A i \in 1..Len(days) : UniqueIds(days[i].activities)

\* the stored task is a point-in-time task exactly when there is no end time
EndTimeMatchesTask(act) ==
    Includes(pointInTimeTasks, act.task) <=> act.endTime = NullStr

\* C18 (as claimed): every activity produced by handleAddActivity or
\* handleUpdateActivity whose stored task is 'Wake up', 'Sleep' or 'Drink
\* Water' has endTime null, and every activity with another task has a
\* non-null endTime, for tasks chosen from the list and for custom typed text.
C18_EndTimeNullIffPointInTime ==
    (ret.op = "handleAddActivity" \/ ret.op = "handleUpdateActivity")
        => \A i \in 1..Len(ret.val) : EndTimeMatchesTask(ret.val[i])

\* the parsed start time of day, in minutes
StartOfDay(act) == parseTime(act.startTime, now).time.v % 1440

\* C19 (as claimed): after any sequence of handleAddActivity,
\* handleUpdateActivity and handleDeleteActivity the working list is in
\* ascending order of parsed start time (activities whose start time does not
\* parse are left out of the comparison), so the last of them is the latest.
C19_WorkingListSorted ==
    \A i, j \in 1..Len(currentActivities) :
        (i < j /\ ValidStart(currentActivities[i], now)
               /\ ValidStart(currentActivities[j], now))
            => StartOfDay(currentActivities[i]) <= StartOfDay(currentActivities[j])

-----------------------------------------------------------------------------
(* calculateGoalProgress, App.tsx 180-192.  A local Date is its instant in  *)
(* minutes; the local midnight of day number d is d * 1440.                 *)

\* startOfWeek.setDate(today.getDate() - today.getDay()): the day of the
\* month changes, the time of day stays
SetDateBack(c, k) == DaysFromCivil(c[1], c[2], c[3] - k)
StartOfWeek(n) ==
    SetDateBack(CivilFromDays(DayOf(n)), GetDay(DayOf(n))) * 1440 + (n % 1440)

\* new Date(d.date + 'T00:00:00')
LocalMidnight(date) == LocalDate(date) * 1440

\* dayDate >= startOfWeek && dayDate <= today
InWeek(day, n) ==
    LocalMidnight(day.date) >= StartOfWeek(n) /\ LocalMidnight(day.date) <= n

\* new Set(daysInWeek.filter(...).map(d => d.date))
CompletedDays(ds, t, n) ==
    {ds[i].date : i \in {j \in 1..Len(ds) : InWeek(ds[j], n) /\ HasTask(ds[j], t)}}

calculateGoalProgress(g, ds, n) == Cardinality(CompletedDays(ds, g.task, n))

\* a Sunday, the Wednesday after it, the Saturday before it, the Monday and
\* the Thursday after it, the next Sunday
GoalDateSamples ==
    << DateString(2024, 12, 29), DateString(2025, 1, 1), DateString(2024, 12, 28),
       DateString(2024, 12, 30), DateString(2025, 1, 2), DateString(2025, 1, 5) >>
GoalDates == {GoalDateSamples[i] : i \in 1..Min({MaxDates, Len(GoalDateSamples)})}

\* a day with lunch only
LunchOn(date) == [date |-> date, activities |-> <<LunchAt1>>]

GoalDayRecords == {DayOn(dt) : dt \in GoalDates} \cup {LunchOn(GoalDateSamples[2])}
GoalDayLists == UNION {[1..k -> GoalDayRecords] : k \in 0..MaxDays}

\* now is the Sunday, the Wednesday or the Thursday, at 00:00, 08:00 or 23:59
GoalNows ==
    {LocalDate(dt) * 1440 + m :
        dt \in {GoalDateSamples[1], GoalDateSamples[2], GoalDateSamples[5]},
        m \in {0, 8 * 60, 1439}}

ExerciseGoal == [id |-> 1, task |-> Exercise, frequency |-> 3, period |-> "week"]
LunchGoal == [id |-> 2, task |-> Lunch, frequency |-> 5, period |-> "week"]

InitGoals ==
    /\ now \in GoalNows
    /\ start = NullStr
    /\ end = NullStr
    /\ minutes = Num(0)
    /\ time24 = Clock24(0, 0)
    /\ time12 = NullStr
    /\ days \in GoalDayLists
    /\ task = NullStr
    /\ ret = NoCall
    /\ selectedDay = NullDay
    /\ dayToDelete = NullStr
    /\ taskOptions = <<>>
    /\ goal \in {ExerciseGoal, LunchGoal}
    /\ SideIdle
    /\ ModalUnmounted

CalculateGoalProgress ==
    /\ ret' = [op |-> "calculateGoalProgress",
               val |-> calculateGoalProgress(goal, days, now)]
    /\ UNCHANGED <<now, start, end, minutes, time24, time12, days, task, appVars,
                   modalVars>>

NextGoals == CalculateGoalProgress

SpecGoals == InitGoals /\ [][NextGoals]_vars

\* the dates of GoalDateSamples as day numbers, written out: 2024-12-29 is
\* day 20086 (a Sunday)
CalendarDay(date) ==
    CASE date = DateString(2024, 12, 28) -> 20085
      [] date = DateString(2024, 12, 29) -> 20086
      [] date = DateString(2024, 12, 30) -> 20087
      [] date = DateString(2025, 1, 1) -> 20089
      [] date = DateString(2025, 1, 2) -> 20090
      [] date = DateString(2025, 1, 5) -> 20093

\* the day number of the Sunday that starts the week of `now`
WeekSunday == DayOf(now) - ((DayOf(now) + 4) % 7)

\* the dates from the week's Sunday through today whose record has the task
DatesDoneThisWeek ==
    {days[i].date : i \in {j \in 1..Len(days) :
        /\ CalendarDay(days[j].date) >= WeekSunday
        /\ CalendarDay(days[j].date) <= DayOf(now)
        /\ \E k \in 1..Len(days[j].activities) :
              days[j].activities[k].task = goal.task}}

\* C20 (as claimed): for every goal, day collection and current instant,
\* calculateGoalProgress is the number of distinct dates of the current week,
\* from the week's Sunday through today, both inclusive, whatever the time of
\* day, whose Day record has an activity with the goal's task.
C20_ProgressCountsWeekDates ==
    ret.op = "calculateGoalProgress" => ret.val = Cardinality(DatesDoneThisWeek)

-----------------------------------------------------------------------------
(* Bounds of the pair calculateStreaks returns *)

\* C25: for every day list, task filter and value of today, the pair returned
\* by calculateStreaks satisfies
\* 0 <= currentStreak <= longestStreak <= number of qualifying days.
C25_StreaksBounded ==
    ret.op = "calculateStreaks" =>
        /\ 0 <= ret.val.currentStreak
        /\ ret.val.currentStreak <= ret.val.longestStreak
        /\ ret.val.longestStreak <= Len(QualifyingDates)

\* a live streak of two days that is also the longest one, out of three
\* qualifying days
C25_Witness ==
    /\ ret.op = "calculateStreaks"
    /\ Len(QualifyingDates) = 3
    /\ ret.val.currentStreak = 2
    /\ ret.val.longestStreak = 2

-----------------------------------------------------------------------------
(* At most one 'Wake up' in the working list *)

WakeUps(activities) == {i \in 1..Len(activities) : activities[i].task = WakeUp}

\* handleAddActivity has just returned at line 365: the trimmed task is
\* 'Wake up' and the list had one already
SecondWakeUpRejected ==
    /\ ret'.op = "handleAddActivity"
    /\ ret'.val = <<>>
    /\ modalOps' = modalOps + 1
    /\ Trim(task) = WakeUp
    /\ WakeUps(currentActivities) # {}

\* C26: the working activity list of the DayModal never holds more than one
\* 'Wake up' activity, whatever adds, edits and deletes are made on a list that
\* started with at most one; and an add that is rejected as a second 'Wake up'
\* leaves the working list and the task catalog as they were.
C26_AtMostOneWakeUp ==
    /\ [](Cardinality(WakeUps(currentActivities)) <= 1)
    /\ [][SecondWakeUpRejected => UNCHANGED <<currentActivities, taskOptions>>]_vars

\* 'Wake up ' typed as a custom task and submitted on a list that has a
\* 'Wake up': rejected
C26_Witness ==
    /\ ret.op = "handleAddActivity"
    /\ ret.val = <<>>
    /\ Trim(task) = WakeUp
    /\ Cardinality(WakeUps(currentActivities)) = 1

-----------------------------------------------------------------------------
(* The DayModal works on a copy of the Day *)

\* the records of ds whose date is not `date`
OtherRecords(ds, date) == {ds[i] : i \in {j \in 1..Len(ds) : ds[j].date # date}}

\* the step is the DayModal's handleSave
SaveStep == selectedDay # NullDay /\ ret'.op = "handleSave" /\ selectedDay' = NullDay

\* the collection after the step has the modal's working list under the
\* modal's date and every other record as before
SavedOwnRecordOnly ==
    /\ OtherRecords(days', selectedDay.date) = OtherRecords(days, selectedDay.date)
    /\ Len(days') = Len(days) + (IF HasDate(days, selectedDay.date) THEN 0 ELSE 1)
    /\ \E i \in 1..Len(days') :
          days'[i] = [date |-> selectedDay.date, activities |-> currentActivities]

\* C27: adding, editing and deleting activities in an open DayModal changes
\* only the modal's working copy: every step other than handleSave (Cancel
\* included) leaves the Day collection as it is, so a cancelled new date gets
\* no record, and handleSave changes only the record with the modal's date.
C27_ModalChangesOnlyWorkingCopy ==
    [][IF SaveStep THEN SavedOwnRecordOnly ELSE days' = days]_vars

\* a new Day saved with an activity added in the modal, next to two stored Days
C27_Witness ==
    /\ ret.op = "handleSave"
    /\ Len(days) = 3
    /\ \E i \in 1..Len(days) :
          /\ days[i].date = ret.val
          /\ Len(days[i].activities) = 2

-----------------------------------------------------------------------------
(* Deleting a Day takes a request and its confirmation *)

\* the dates that have a record before the step and none after it
RemovedDates == {days[i].date : i \in {j \in 1..Len(days) : ~HasDate(days', days[j].date)}}

\* the step is handleConfirmDelete with a pending request
ConfirmStep == dayToDelete # NullStr /\ ret'.op = "handleConfirmDelete"

\* the records of every other date stay, in their order, and the request is
\* cleared
RemovedRequestedOnly ==
    /\ days' = SelectSeq(days, LAMBDA day : day.date # dayToDelete)
    /\ dayToDelete' = NullStr

\* C28: a Day record leaves the collection only in a handleConfirmDelete that
\* runs while a handleDeleteRequest for that date is pending (not cancelled):
\* a request alone and a cancelled request leave the collection unchanged, and
\* the confirm removes the requested date only and clears the pending request.
C28_DeleteOnlyByConfirm ==
    [][/\ RemovedDates # {} => (ConfirmStep /\ RemovedDates = {dayToDelete})
       /\ ret'.op \in {"handleDeleteRequest", "cancelDelete"} => days' = days
       /\ ConfirmStep => RemovedRequestedOnly]_vars

\* one of two Days deleted after its request was confirmed
C28_Witness ==
    /\ ret.op = "handleConfirmDelete"
    /\ dayToDelete = NullStr
    /\ ~HasDate(days, ret.val)
    /\ Len(days) = 1

-----------------------------------------------------------------------------
(* The end time proposed for 'Washroom' *)

\* the "HH:MM" values with hour 00..23 and minute 00..59
ClockValues == {Clock24(h, m) : h \in 0..23, m \in 0..59}

\* the "HH:MM" value k minutes after the "HH:MM" value x, modulo 24 hours
MinutesAfter(x, k) ==
    LET n == CHOOSE i \in 0..1439 : Clock24(i \div 60, i % 60) = x
    IN  Clock24(((n + k) % 1440) \div 60, (n + k) % 60)

\* the render after a change of the start time or of the task, with
\* 'Washroom' selected in the open modal
WashroomProposed ==
    /\ selectedDay' # NullDay
    /\ task' = Washroom
    /\ task' # task \/ startTime' # startTime

\* C30 (as claimed): while the selected task is 'Washroom', after any change of
\* the start time or selection of the task, handler and effects included, the
\* proposed end time is a valid HH:MM value (hour 00..23, minute 00..59) and is
\* the start time plus 4 minutes modulo 24 hours.
C30_WashroomEndIsStartPlusFour ==
    [][WashroomProposed =>
          /\ endTime' \in ClockValues
          /\ startTime' \in ClockValues
          /\ endTime' = MinutesAfter(startTime', 4)]_vars

-----------------------------------------------------------------------------
(* DayCard, App.tsx 563-600 and 632-633: the totals of one Day *)

\* line 564
workAndGrowthTasks ==
    << <<"O", "f", "f", "i", "c", "e", " ", "w", "o", "r", "k">>,
       <<"V", "i", "d", "e", "o", " ", "c", "a", "l", "l">>,
       OfficeMeetingScrum,
       <<"R", "e", "a", "d", " ", "b", "o", "o", "k">>,
       <<"S", "e", "l", "f", " ", "L", "e", "a", "r", "n", "i", "n", "g">>,
       Exercise >>

\* parseTime(a.startTime)?.getTime() || 0
TimeOrZero(date) == IF date.null \/ date.time.nan THEN 0 ELSE date.time.v
SortKey(a, n) == TimeOrZero(parseTime(a.startTime, n))

\* [...day.activities].sort(...) of line 570: the comparator is the difference
\* of two keys, hence consistent, and the sort is stable
RECURSIVE InsertByKey(_, _, _)
InsertByKey(x, sorted, n) ==
    IF sorted = <<>> THEN <<x>>
    ELSE IF SortKey(Head(sorted), n) < SortKey(x, n)
         THEN <<Head(sorted)>> \o InsertByKey(x, Tail(sorted), n)
         ELSE <<x>> \o sorted

RECURSIVE SortByKey(_, _)
SortByKey(activities, n) ==
    IF activities = <<>> THEN <<>>
    ELSE InsertByKey(Head(activities), SortByKey(Tail(activities), n), n)

\* line 573, and what line 574 lets through: duration > 0
DurationOf(a, n) == calculateDurationInMinutes(a.startTime, a.endTime, n)
Positive(duration) == IF ~duration.nan /\ duration.v > 0 THEN duration.v ELSE 0

\* lines 575-580: what one activity adds to each total
WorkMinutes(a, n) ==
    IF Includes(workAndGrowthTasks, a.task) THEN Positive(DurationOf(a, n)) ELSE 0
OddMinutes(a, n) ==
    IF ~Includes(workAndGrowthTasks, a.task) /\ ~Includes(pointInTimeTasks, a.task)
    THEN Positive(DurationOf(a, n)) ELSE 0
LoggedMinutes(a, n) == Positive(DurationOf(a, n))

\* the forEach of lines 572-582, one total at a time
RECURSIVE TotalWork(_, _)
TotalWork(activities, n) ==
    IF activities = <<>> THEN 0
    ELSE WorkMinutes(Head(activities), n) + TotalWork(Tail(activities), n)

RECURSIVE TotalOdd(_, _)
TotalOdd(activities, n) ==
    IF activities = <<>> THEN 0
    ELSE OddMinutes(Head(activities), n) + TotalOdd(Tail(activities), n)

RECURSIVE TotalLogged(_, _)
TotalLogged(activities, n) ==
    IF activities = <<>> THEN 0
    ELSE LoggedMinutes(Head(activities), n) + TotalLogged(Tail(activities), n)

\* lastActivity.endTime || lastActivity.startTime
EndOrStart(a) == IF Falsy(a.endTime) THEN a.startTime ELSE a.endTime

\* lines 590-597: from the first start to the end of the last-started activity
DayDuration(first, last, n) ==
    IF parseTime(first.startTime, n).null \/ parseTime(EndOrStart(last), n).null
    THEN Num(0)
    ELSE calculateDurationInMinutes(first.startTime, EndOrStart(last), n)

TotalDayDuration(sorted, n) ==
    IF sorted = <<>> THEN Num(0) ELSE DayDuration(sorted[1], sorted[Len(sorted)], n)

\* totalDayDuration - totalLoggedMinutes, 0 when line 593 is not reached, and
\* the Math.max(0, _) of line 599
Unaccounted(first, last, total, logged, n) ==
    IF parseTime(first.startTime, n).null \/ parseTime(EndOrStart(last), n).null
    THEN Num(0)
    ELSE IF total.nan THEN NaN
    ELSE Num(IF total.v - logged > 0 THEN total.v - logged ELSE 0)

TotalUnaccounted(sorted, n) ==
    IF sorted = <<>> THEN Num(0)
    ELSE Unaccounted(sorted[1], sorted[Len(sorted)], TotalDayDuration(sorted, n),
                     TotalLogged(sorted, n), n)

\* the useMemo of lines 563-600 on the sorted activities
TotalsOfSorted(sorted, n) ==
    [totalWorkAndGrowthMinutes |-> TotalWork(sorted, n),
     totalOddTaskMinutes |-> TotalOdd(sorted, n),
     totalUnaccountedMinutes |-> TotalUnaccounted(sorted, n),
     totalDayDuration |-> TotalDayDuration(sorted, n)]

DayCardTotals(day, n) == TotalsOfSorted(SortByKey(day.activities, n), n)

\* how many activities the Day of a card has
MaxCardActivities == 2

\* stretches of the day as the modal stores them: two that overlap, one inside
\* the first, one after them
CardSlots ==
    { <<Clock12(9, 0, AM), Clock12(11, 0, AM)>>,
      <<Clock12(10, 0, AM), Clock12(12, 0, PM)>>,
      <<Clock12(9, 30, AM), Clock12(10, 0, AM)>>,
      <<Clock12(1, 0, PM), Clock12(1, 30, PM)>> }

CardActivities ==
    {Activity(1, t, s[1], s[2]) : t \in {Exercise, Lunch}, s \in CardSlots}
        \cup {Activity(1, WakeUp, s[1], NullStr) : s \in CardSlots}

CardDays ==
    {[date |-> DateSamples[1], activities |-> acts] :
        acts \in UNION {[1..k -> CardActivities] : k \in 0..MaxCardActivities}}

InitCard ==
    /\ now = FirstNowModal
    /\ start = NullStr
    /\ end = NullStr
    /\ minutes = Num(0)
    /\ time24 = Clock24(0, 0)
    /\ time12 = NullStr
    /\ days \in {<<day>> : day \in CardDays}
    /\ task = NullStr
    /\ ret = NoCall
    /\ AppIdle

\* the DayCard of one Day of the collection renders
RenderDayCard ==
    /\ \E i \in 1..Len(days) :
          ret' = [op |-> "DayCard", val |-> DayCardTotals(days[i], now)]
    /\ UNCHANGED <<now, start, end, minutes, time24, time12, days, task, appVars,
                   modalVars>>

NextCard == RenderDayCard

SpecCard == InitCard /\ [][NextCard]_vars

\* C29 (as claimed): for every Day with valid activity times,
\* totalWorkAndGrowthMinutes + totalOddTaskMinutes <= totalDayDuration whenever
\* totalDayDuration > 0 (so the two ring fractions are in [0,1] and sum to at
\* most 1), and totalUnaccountedMinutes is never negative; days whose
\* activities overlap, or whose last-started activity ends before an earlier
\* one, included.
C29_RingTotalsWithinDay ==
    ret.op = "DayCard" =>
        /\ ~ret.val.totalUnaccountedMinutes.nan
        /\ ret.val.totalUnaccountedMinutes.v >= 0
        /\ ret.val.totalDayDuration.v > 0 =>
              ret.val.totalWorkAndGrowthMinutes + ret.val.totalOddTaskMinutes
                  <= ret.val.totalDayDuration.v

-----------------------------------------------------------------------------
(* useNotificationReminder, App.tsx 279-301 *)

\* formatDateForInput(new Date()), lines 271-276
DateStringOf(c) == DateString(c[1], c[2], c[3])
formatDateForInput(n) == DateStringOf(CivilFromDays(DayOf(n)))

\* days.find(d => d.date === todayStr): the index of the first match, or 0
FindDate(ds, date) ==
    IF HasDate(ds, date)
    THEN Min({i \in 1..Len(ds) : ds[i].date = date})
    ELSE 0

\* lines 289-292: (new Date().getTime() - lastActivityTime.getTime()) in
\* minutes is more than an hour, for a lastActivityTime that is not null
OverAnHour(lastActivityTime, n) ==
    /\ ~lastActivityTime.null
    /\ ~lastActivityTime.time.nan
    /\ n - lastActivityTime.time.v > 60

LastOf(activities) == activities[Len(activities)]

\* lines 286-296 for the Day found for today
ReminderFor(today, n) ==
    IF Len(today.activities) > 0
    THEN IF OverAnHour(parseTime(LastOf(today.activities).startTime, n), n)
         THEN "lastHour" ELSE "none"
    ELSE "firstActivity"

\* line 286 with a Day found at index i (0: none found)
ReminderAt(ds, i, n) == IF i = 0 THEN "none" ELSE ReminderFor(ds[i], n)

\* checkLastActivity, lines 283-297: the Notification it raises
checkLastActivity(ds, n) ==
    IF Len(ds) = 0 THEN "none"
    ELSE ReminderAt(ds, FindDate(ds, formatDateForInput(n)), n)

\* one run of the interval callback the effect installs (line 281: none is
\* installed without permission or without days)
useNotificationReminder(ds, permission, n) ==
    IF permission # "granted" \/ ds = NullDays THEN "none"
    ELSE checkLastActivity(ds, n)

\* how often the 20-minute interval fires
MaxIntervals == 3

\* Wednesday 2025-01-01, 09:40 local time
FirstNowReminder == DaysFromCivil(2025, 1, 1) * 1440 + 9 * 60 + 40

Breakfast == <<"B", "r", "e", "a", "k", "f", "a", "s", "t">>
BreakfastAt9 == Activity(1, Breakfast, Clock12(9, 0, AM), Clock12(9, 30, AM))
ExerciseAt1030 == Activity(2, Exercise, Clock12(10, 30, AM), Clock12(11, 0, AM))

\* today's record with none, one and two activities, and yesterday's record
ReminderDays ==
    { [date |-> DateString(2025, 1, 1), activities |-> <<>>],
      [date |-> DateString(2025, 1, 1), activities |-> <<BreakfastAt9>>],
      [date |-> DateString(2025, 1, 1), activities |-> <<BreakfastAt9, ExerciseAt1030>>],
      [date |-> DateString(2024, 12, 31), activities |-> <<BreakfastAt9>>] }

\* collections with one record per date
ReminderDayLists ==
    {ds \in UNION {[1..k -> ReminderDays] : k \in 0..2} :
        \A i, j \in 1..Len(ds) : i # j => ds[i].date # ds[j].date}

InitReminder ==
    /\ now = FirstNowReminder
    /\ start = NullStr
    /\ end = NullStr
    /\ minutes = Num(0)
    /\ time24 = Clock24(0, 0)
    /\ time12 = NullStr
    /\ days \in ReminderDayLists
    /\ task = NullStr
    /\ ret = NoCall
    /\ selectedDay = NullDay
    /\ dayToDelete = NullStr
    /\ taskOptions = <<>>
    /\ goal = NoGoal
    /\ ModalUnmounted
    /\ notificationPermission \in {"default", "granted", "denied"}
    /\ goals = <<>>
    /\ storage = NoStorage
    /\ effects = {}
    /\ aiCall = NoAICall
    /\ toasts = <<>>
    /\ summary = NullStr
    /\ dailyPlan = NullPlan
    /\ isPlanModalOpen = FALSE
    /\ coachingTips = <<>>
    /\ aiOps = 0

\* setInterval(checkLastActivity, 20 * 60 * 1000): 20 minutes pass and the
\* callback runs
IntervalFires ==
    /\ now < FirstNowReminder + 20 * MaxIntervals
    /\ now' = now + 20
    /\ ret' = [op |-> "checkLastActivity",
               val |-> useNotificationReminder(days, notificationPermission, now + 20)]
    /\ UNCHANGED <<start, end, minutes, time24, time12, days, task, selectedDay,
                   dayToDelete, taskOptions, goal, sideVars, modalVars>>

NextReminder == IntervalFires

SpecReminder == InitReminder /\ [][NextReminder]_vars

\* the activities of today's record (2025-01-01), none when there is no record
ActivitiesToday ==
    IF \E i \in 1..Len(days) : days[i].date = DateString(2025, 1, 1)
    THEN (CHOOSE d \in {days[i] : i \in 1..Len(days)} :
              d.date = DateString(2025, 1, 1)).activities
    ELSE <<>>

\* the start of today's activities in minutes since the epoch, written out
StartedAt(act) ==
    IF act = BreakfastAt9 THEN FirstNowReminder - 40 ELSE FirstNowReminder + 50

\* the most recent activity of today started more than an hour before now
LastStartedOverAnHourAgo ==
    /\ ActivitiesToday # <<>>
    /\ now - StartedAt(ActivitiesToday[Len(ActivitiesToday)]) > 60

\* C21 (as claimed): a periodic reminder check raises a notification if and
\* only if permission is 'granted' and either the most recent activity logged
\* today started more than one hour before now or no activity has been logged
\* today, be it that today has an empty Day record or no Day record at all;
\* without permission the check never raises one.
C21_ReminderIffIdleForAnHour ==
    ret.op = "checkLastActivity" =>
        (ret.val # "none" <=>
            /\ notificationPermission = "granted"
            /\ ActivitiesToday = <<>> \/ LastStartedOverAnHourAgo)

-----------------------------------------------------------------------------
(* The generative-AI calls, App.tsx 43-176, and their call sites (353,      *)
(* 842-854, 887-902, 1150-1160).  What the service does is an outcome:      *)
(* fetch rejects, the status is not OK, the body is not the JSON expected   *)
(* (response.json() rejects, or a candidate has no content), the body has   *)
(* no candidates, or the first candidate carries a text.  One call is in    *)
(* flight at a time; the user acts while it is.  A value returned is        *)
(* [threw |-> FALSE, value |-> v], an exception [threw |-> TRUE].           *)

Threw == [threw |-> TRUE]
Returned(v) == [threw |-> FALSE, value |-> v]

FailureOutcomes ==
    { [kind |-> "networkError"], [kind |-> "notOk"], [kind |-> "badBody"],
      [kind |-> "noCandidates"] }
TextOutcome(t) == [kind |-> "text", text |-> t]

\* getAISuggestion, lines 43-73, once fetch has been called: every failure is
\* caught or answered with null; a text counts when, trimmed, it is a task of
\* the catalog
getAISuggestion(options, outcome) ==
    IF outcome.kind = "text" /\ Includes(options, Trim(outcome.text))
    THEN Trim(outcome.text)
    ELSE NullStr

\* lines 44-45: no fetch without a recent day
HasRecentDays(ds) == Len(ds) > 0

\* sevenDaysAgo.setDate(today.getDate() - 7), lines 76-78
SevenDaysAgo(n) == SetDateBack(CivilFromDays(DayOf(n)), 7) * 1440 + (n % 1440)

\* line 79: new Date(d.date) >= sevenDaysAgo && new Date(d.date) <= today
InLastWeek(day, n) ==
    DayDate(day) * 1440 >= SevenDaysAgo(n) /\ DayDate(day) * 1440 <= n

RecentDays(ds, n) == SelectSeq(ds, LAMBDA day : InLastWeek(day, n))

\* lines 95-111 and 117-135: the trimmed text, or an exception
TextOrThrow(outcome) ==
    IF outcome.kind = "text" THEN Returned(Trim(outcome.text)) ELSE Threw

getAIWeeklySummary(outcome) == TextOrThrow(outcome)
getAICoachingTip(outcome) == TextOrThrow(outcome)

\* JSON.parse(text) and parsed.plan || [], lines 166-167; a plan text is
\* [json |-> "invalid"], [json |-> "null"] or [json |-> "object", ...]
PlanOfText(text) ==
    IF text.json # "object" THEN Threw
    ELSE IF text.hasPlan THEN Returned(text.plan)
    ELSE Returned(<<>>)

\* getAIDailyPlan, lines 137-176
getAIDailyPlan(outcome) ==
    IF outcome.kind = "text" THEN PlanOfText(outcome.text) ELSE Threw

\* react-hot-toast: a toast is [kind, text]; toast.loading returns the id of
\* the toast it shows, and a later toast with that id takes its place
Toast(kind, text) == [kind |-> kind, text |-> text]
ReplaceToast(ts, id, t) == [ts EXCEPT ![id] = t]

\* prev => ({ ...prev, [goal.id]: tip }), line 896, as a list of [id, tip]
WithTip(tips, id, tip) ==
    SelectSeq(tips, LAMBDA e : e.id # id) \o <<[id |-> id, tip |-> tip]>>

\* how many goals the goal list holds
MaxGoals == 1
\* how many user operations a behaviour with AI calls has (a call's return is
\* not one)
MaxAIOps == 4

\* what the service answers
SuggestionTexts == { <<" ">> \o Exercise, <<"J", "o", "g">> }
ProseTexts == { <<"W", "e", "l", "l", " ", "d", "o", "n", "e", " ">>, <<" ">> }
PlanTexts ==
    { [json |-> "invalid"], [json |-> "null"],
      [json |-> "object", hasPlan |-> FALSE, plan |-> <<>>],
      [json |-> "object", hasPlan |-> TRUE, plan |-> <<Exercise>>] }

Outcomes(kind) ==
    FailureOutcomes \cup
        {TextOutcome(t) : t \in IF kind = "suggestion" THEN SuggestionTexts
                                ELSE IF kind = "plan" THEN PlanTexts
                                ELSE ProseTexts}

AICall(kind, id) == [kind |-> kind, id |-> id]

\* what a step of a call site leaves in `ret`
AIStep(site, phase, outcome, result) ==
    [op |-> site,
     val |-> [phase |-> phase, outcome |-> outcome, result |-> result]]

\* a custom task typed in a DayModal
Yoga == <<"Y", "o", "g", "a">>

\* the collections read from local storage: none, or two days of this week,
\* today (2025-01-04) not among them
AIStoredDays == {<<>>, <<DayOn(AppDateSamples[1]), DayOn(AppDateSamples[3])>>}

InitAI ==
    /\ now = FirstNowModal
    /\ start = NullStr
    /\ end = NullStr
    /\ minutes = Num(0)
    /\ time24 = Clock24(0, 0)
    /\ time12 = NullStr
    /\ days \in AIStoredDays
    /\ task = NullStr
    /\ ret = NoCall
    /\ selectedDay = NullDay
    /\ dayToDelete = NullStr
    /\ taskOptions = initialTaskOptions
    /\ goal = NoGoal
    /\ ModalUnmounted
    /\ SideIdle

\* one more user operation
UserOp == aiOps < MaxAIOps /\ aiOps' = aiOps + 1

aiFixed == <<now, start, end, minutes, time24, time12, goal, dayToDelete, modalVars,
             notificationPermission, storage, effects>>
aiResults == <<summary, dailyPlan, isPlanModalOpen, coachingTips>>

\* the mount effect of line 353 fetches a suggestion for this Day
Suggests(day, ds, n) ==
    day.date = formatDateForInput(n) /\ Len(day.activities) = 0 /\ HasRecentDays(ds)

\* the Days a click opens the DayModal on: handleAddDay with a date that has
\* no record, or the card of a Day (handleOpenModal)
Openable(ds, n) ==
    {NewDay(date, n) : date \in {d \in AppDates : ~HasDate(ds, d)}}
        \cup {ds[i] : i \in 1..Len(ds)}

\* the DayModal mounts (lines 339 and 351-356): the task is the first of the
\* catalog, and the suggestion is fetched for an empty today
OpenDayModal ==
    /\ UserOp
    /\ selectedDay = NullDay
    /\ aiCall.kind # "suggestion"
    /\ \E day \in Openable(days, now) :
          /\ aiCall = NoAICall \/ ~Suggests(day, days, now)
          /\ selectedDay' = day
          /\ task' = FirstOrEmpty(taskOptions)
          /\ IF Suggests(day, days, now)
             THEN /\ aiCall' = AICall("suggestion", 0)
                  /\ toasts' = <<>>
                  /\ ret' = AIStep("fetchSuggestion", "started", "none", NullStr)
             ELSE /\ UNCHANGED <<aiCall, toasts>>
                  /\ ret' = [op |-> "handleOpenModal", val |-> day.date]
    /\ UNCHANGED <<aiFixed, days, goals, taskOptions, aiResults>>

\* line 353 after the await, with the DayModal still mounted or not:
\* if (suggestion) setTask(suggestion); no toast on either path
SuggestionReturns ==
    /\ UNCHANGED aiOps
    /\ aiCall.kind = "suggestion"
    /\ \E outcome \in Outcomes("suggestion") :
          /\ task' = IF selectedDay # NullDay
                        /\ ~Falsy(getAISuggestion(taskOptions, outcome))
                     THEN getAISuggestion(taskOptions, outcome)
                     ELSE task
          /\ ret' = AIStep("fetchSuggestion", "returned", outcome.kind,
                           getAISuggestion(taskOptions, outcome))
    /\ aiCall' = NoAICall
    /\ UNCHANGED <<aiFixed, days, goals, taskOptions, selectedDay, toasts, aiResults>>

\* a call site shows its loading toast; the toasts of the call before it are
\* gone by then
Loading(text) == <<Toast("loading", text)>>

\* handleAnalyzeClick, lines 842-848, with fewer than two recent days:
\* getAIWeeklySummary raises its own toast and returns null (lines 80-83), and
\* the call site goes on as it does after a summary
AnalyzeWithoutDays ==
    /\ summary' = NullStr
    /\ toasts' = <<Toast("success", "Summary generated!"),
                   Toast("error", "Track at least 2 days to get a summary.")>>
    /\ ret' = AIStep("handleAnalyzeClick", "returned", "none", NullStr)
    /\ UNCHANGED aiCall

HandleAnalyzeClick ==
    /\ UserOp
    /\ aiCall = NoAICall
    /\ IF Len(RecentDays(days, now)) < 2
       THEN AnalyzeWithoutDays
       ELSE /\ aiCall' = AICall("summary", 1)
            /\ toasts' = Loading("Analyzing your week...")
            /\ ret' = AIStep("handleAnalyzeClick", "started", "none", NullStr)
            /\ UNCHANGED summary
    /\ UNCHANGED <<aiFixed, days, goals, taskOptions, selectedDay, task, dailyPlan,
                   isPlanModalOpen, coachingTips>>

\* lines 847-848 and 849-850
SummaryReturns ==
    /\ UNCHANGED aiOps
    /\ aiCall.kind = "summary"
    /\ \E outcome \in Outcomes("summary") :
          /\ IF getAIWeeklySummary(outcome).threw
             THEN /\ toasts' = ReplaceToast(toasts, aiCall.id,
                                   Toast("error", "Could not generate summary."))
                  /\ UNCHANGED summary
                  /\ ret' = AIStep("handleAnalyzeClick", "returned", outcome.kind, NullStr)
             ELSE /\ summary' = getAIWeeklySummary(outcome).value
                  /\ toasts' = ReplaceToast(toasts, aiCall.id,
                                   Toast("success", "Summary generated!"))
                  /\ ret' = AIStep("handleAnalyzeClick", "returned", outcome.kind,
                                   getAIWeeklySummary(outcome).value)
    /\ aiCall' = NoAICall
    /\ UNCHANGED <<aiFixed, days, goals, taskOptions, selectedDay, task, dailyPlan,
                   isPlanModalOpen, coachingTips>>

\* handleGetCoachingTip, lines 887-893, for a goal of the list
HandleGetCoachingTip ==
    /\ UserOp
    /\ aiCall = NoAICall
    /\ \E i \in 1..Len(goals) :
          /\ aiCall' = AICall("tip", goals[i].id)
          /\ ret' = AIStep("handleGetCoachingTip", "started", "none", NullStr)
    /\ toasts' = Loading("Getting your tip...")
    /\ UNCHANGED <<aiFixed, days, goals, taskOptions, selectedDay, task, aiResults>>

\* lines 894-900: an empty tip leaves the loading toast as it is
TipReturns ==
    /\ UNCHANGED aiOps
    /\ aiCall.kind = "tip"
    /\ \E outcome \in Outcomes("tip") :
          /\ IF getAICoachingTip(outcome).threw
             THEN /\ toasts' = ReplaceToast(toasts, 1,
                                   Toast("error", "Could not get coaching tip."))
                  /\ UNCHANGED coachingTips
                  /\ ret' = AIStep("handleGetCoachingTip", "returned", outcome.kind,
                                   NullStr)
             ELSE /\ IF Falsy(getAICoachingTip(outcome).value)
                     THEN UNCHANGED <<toasts, coachingTips>>
                     ELSE /\ coachingTips' = WithTip(coachingTips, aiCall.id,
                                                     getAICoachingTip(outcome).value)
                          /\ toasts' = ReplaceToast(toasts, 1,
                                           Toast("success", "Here's a tip!"))
                  /\ ret' = AIStep("handleGetCoachingTip", "returned", outcome.kind,
                                   getAICoachingTip(outcome).value)
    /\ aiCall' = NoAICall
    /\ UNCHANGED <<aiFixed, days, goals, taskOptions, selectedDay, task, summary,
                   dailyPlan, isPlanModalOpen>>

\* handleGeneratePlan, lines 1150-1153
HandleGeneratePlan ==
    /\ UserOp
    /\ aiCall = NoAICall
    /\ aiCall' = AICall("plan", 1)
    /\ toasts' = Loading("Generating your daily plan...")
    /\ ret' = AIStep("handleGeneratePlan", "started", "none", NullStr)
    /\ UNCHANGED <<aiFixed, days, goals, taskOptions, selectedDay, task, aiResults>>

\* the catch of lines 1157-1159 that also empties the Day collection
PlanFailed_DropsDays ==
    /\ toasts' = ReplaceToast(toasts, aiCall.id,
                     Toast("error", "Could not generate a plan right now."))
    /\ days' = <<>>
    /\ UNCHANGED <<goals, taskOptions, dailyPlan, isPlanModalOpen>>

\* the catch of lines 1157-1159
PlanFailed ==
    /\ toasts' = ReplaceToast(toasts, aiCall.id,
                     Toast("error", "Could not generate a plan right now."))
    /\ UNCHANGED <<days, goals, taskOptions, dailyPlan, isPlanModalOpen>>

\* lines 1154-1156
PlanReady(plan) ==
    /\ dailyPlan' = plan
    /\ isPlanModalOpen' = TRUE
    /\ toasts' = ReplaceToast(toasts, aiCall.id,
                     Toast("success", "Your plan is ready!"))
    /\ UNCHANGED <<days, goals, taskOptions>>

PlanReturns ==
    /\ UNCHANGED aiOps
    /\ aiCall.kind = "plan"
    /\ \E outcome \in Outcomes("plan") :
          IF getAIDailyPlan(outcome).threw
          THEN /\ PlanFailed
               /\ ret' = AIStep("handleGeneratePlan", "returned", outcome.kind, NullPlan)
          ELSE /\ PlanReady(getAIDailyPlan(outcome).value)
               /\ ret' = AIStep("handleGeneratePlan", "returned", outcome.kind,
                                getAIDailyPlan(outcome).value)
    /\ aiCall' = NoAICall
    /\ UNCHANGED <<aiFixed, selectedDay, task, summary, coachingTips>>

\* the plan modal's close: setIsPlanModalOpen(false)
ClosePlanModal ==
    /\ UserOp
    /\ isPlanModalOpen
    /\ isPlanModalOpen' = FALSE
    /\ ret' = [op |-> "closePlanModal", val |-> 0]
    /\ UNCHANGED <<aiFixed, days, goals, taskOptions, selectedDay, task, aiCall, toasts,
                   summary, dailyPlan, coachingTips>>

\* handleAddGoal, lines 1126-1129 (the id is Date.now())
HandleAddGoal ==
    /\ UserOp
    /\ Len(goals) < MaxGoals
    /\ goals' = Append(goals, [id |-> now, task |-> Exercise, frequency |-> 3,
                               period |-> "week"])
    /\ ret' = [op |-> "handleAddGoal", val |-> now]
    /\ UNCHANGED <<aiFixed, days, taskOptions, selectedDay, task, aiCall, toasts,
                   aiResults>>

\* handleDeleteGoal, lines 1131-1135
HandleDeleteGoal ==
    /\ UserOp
    /\ \E i \in 1..Len(goals) :
          /\ goals' = SelectSeq(goals, LAMBDA g : g.id # goals[i].id)
          /\ ret' = [op |-> "handleDeleteGoal", val |-> goals[i].id]
    /\ UNCHANGED <<aiFixed, days, taskOptions, selectedDay, task, aiCall, toasts,
                   aiResults>>

\* handleAddNewTask, line 1125, called by the open DayModal for a typed task
HandleAddNewTask ==
    /\ UserOp
    /\ selectedDay # NullDay
    /\ taskOptions' = handleAddNewTask(taskOptions, Yoga)
    /\ ret' = [op |-> "handleAddNewTask", val |-> Yoga]
    /\ UNCHANGED <<aiFixed, days, goals, selectedDay, task, aiCall, toasts, aiResults>>

\* the DayModal's handleSave (line 408) with an empty working list or with
\* lunch in it
HandleSaveAI ==
    /\ UserOp
    /\ selectedDay # NullDay
    /\ \E activities \in {<<>>, <<LunchAt1>>} :
          days' = handleSaveDay(days, [date |-> selectedDay.date,
                                       activities |-> activities])
    /\ selectedDay' = NullDay
    /\ task' = NullStr
    /\ ret' = [op |-> "handleSave", val |-> selectedDay.date]
    /\ UNCHANGED <<aiFixed, goals, taskOptions, aiCall, toasts, aiResults>>

NextAI ==
    \/ OpenDayModal
    \/ SuggestionReturns
    \/ HandleAnalyzeClick
    \/ SummaryReturns
    \/ HandleGetCoachingTip
    \/ TipReturns
    \/ HandleGeneratePlan
    \/ PlanReturns
    \/ ClosePlanModal
    \/ HandleAddGoal
    \/ HandleDeleteGoal
    \/ HandleAddNewTask
    \/ HandleSaveAI
    \/ HandleCloseModal
    \/ HandleDeleteRequest
    \/ CancelDelete
    \/ HandleConfirmDelete

SpecAI == InitAI /\ [][NextAI]_vars

-----------------------------------------------------------------------------
(* The AI calls and the user's data *)

AISites ==
    {"fetchSuggestion", "handleAnalyzeClick", "handleGetCoachingTip",
     "handleGeneratePlan"}

\* C22: no outcome of a generative-AI call (network error, non-OK status, no
\* candidates, unparseable body, or a text), whenever it arrives between the
\* user's operations, changes the Day collection, the goal list or the task
\* catalog: the step that makes the call and the step in which it returns
\* leave all three as they are.
C22_AICallsLeaveDataAlone ==
    [][ret'.op \in AISites => UNCHANGED <<days, goals, taskOptions>>]_vars

\* a plan request answered with an unusable body, after the user saved a third
\* Day and added a goal
C22_Witness ==
    /\ ret.op = "handleGeneratePlan"
    /\ ret.val.phase = "returned"
    /\ ret.val.outcome = "badBody"
    /\ Len(days) = 3
    /\ Len(goals) = 1

HasToast(kind) == \E i \in 1..Len(toasts) : toasts[i].kind = kind

\* C23 (as claimed): every failed generative-AI call (task suggestion, weekly
\* summary, coaching tip, daily plan) ends with a failure notification the
\* user sees, and a call that produced no result never ends with a success
\* notification.
C23_FailuresAreShown ==
    (ret.op \in AISites /\ ret.val.phase = "returned") =>
        /\ ret.val.outcome \in {"networkError", "notOk", "badBody", "noCandidates"}
              => HasToast("error")
        /\ ret.val.result \in {NullStr, NullPlan} => ~HasToast("success")

-----------------------------------------------------------------------------
(* Local storage: App, lines 1047-1076 *)
\* The three collections are read from localStorage by the useState
\* initialisers and written back by one effect each.  The specifications above
\* leave the mirroring out (no effect ever waits there); this one has nothing
\* but the mutations of the three collections, the effects and the reload of
\* the page.

StorageKeys == {"dayTrackerData", "dayTrackerTasks", "dayTrackerGoals"}

\* What JSON.stringify writes, as the document the text spells: strings and
\* finite numbers as themselves, arrays in order, objects as their members in
\* insertion order.  (Ids are Date.now(), a frequency is > 0 by line 882: no
\* number of the three collections is NaN or infinite.)
JsonString(s) == [t |-> "string", v |-> s]
JsonNumber(n) == [t |-> "number", v |-> n]
JsonArray(items) == [t |-> "array", v |-> items]
JsonObject(members) == [t |-> "object", v |-> members]
\* a text JSON.parse throws on
InvalidJson == [t |-> "invalid"]

StringifyActivity(a) ==
    JsonObject(<< <<"id", JsonNumber(a.id)>>, <<"task", JsonString(a.task)>>,
                  <<"startTime", JsonString(a.startTime)>>,
                  <<"endTime", JsonString(a.endTime)>> >>)
StringifyDay(day) ==
    JsonObject(<< <<"date", JsonString(day.date)>>,
                  <<"activities",
                    JsonArray([i \in 1..Len(day.activities) |->
                                  StringifyActivity(day.activities[i])])>> >>)
StringifyGoal(g) ==
    JsonObject(<< <<"task", JsonString(g.task)>>,
                  <<"frequency", JsonNumber(g.frequency)>>,
                  <<"period", JsonString(g.period)>>, <<"id", JsonNumber(g.id)>> >>)

\* JSON.stringify(days), JSON.stringify(taskOptions), JSON.stringify(goals)
StringifyDays(ds) == JsonArray([i \in 1..Len(ds) |-> StringifyDay(ds[i])])
StringifyTasks(options) == JsonArray([i \in 1..Len(options) |-> JsonString(options[i])])
StringifyGoals(gs) == JsonArray([i \in 1..Len(gs) |-> StringifyGoal(gs[i])])

\* an item holding a text
TextItem(doc) == [kind |-> "text", doc |-> doc]
\* the item '' (falsy: the initialiser does not parse it)
EmptyItem == [kind |-> "empty"]

MemberOf(members, key) ==
    members[CHOOSE i \in 1..Len(members) : members[i][1] = key][2]

\* JSON.parse of a text that is JSON
RECURSIVE JSONparse(_)
JSONparse(doc) ==
    CASE doc.t = "array" -> [i \in 1..Len(doc.v) |-> JSONparse(doc.v[i])]
      [] doc.t = "object" ->
            [key \in {doc.v[i][1] : i \in 1..Len(doc.v)} |->
                JSONparse(MemberOf(doc.v, key))]
      [] OTHER -> doc.v

\* `try { const saved = localStorage.getItem(key); return saved ?
\*  JSON.parse(saved) : fallback; } catch (error) { return fallback; }`
LoadOr_Fallback(item, fallback) == fallback

LoadOr(item, fallback) ==
    IF item.kind \in {"missing", "empty"} THEN fallback
    ELSE IF item.doc = InvalidJson THEN fallback
    ELSE JSONparse(item.doc)

\* the text an effect writes under a key
Mirror(key, ds, options, gs) ==
    CASE key = "dayTrackerData" -> TextItem(StringifyDays(ds))
      [] key = "dayTrackerTasks" -> TextItem(StringifyTasks(options))
      [] key = "dayTrackerGoals" -> TextItem(StringifyGoals(gs))

\* the effects that wait are run before the next render
Flushed(st, keys, ds, options, gs) ==
    [key \in StorageKeys |->
        IF key \in keys THEN Mirror(key, ds, options, gs) ELSE st[key]]

MaxStoreDates == 2
StoreDates == {AppDateSamples[i] : i \in 1..Min({MaxStoreDates, Len(AppDateSamples)})}
StoreActivities == {<<>>, <<LunchAt1>>}
\* what a browser may hold under a key the application never wrote
ForeignItems == {MissingItem, EmptyItem, TextItem(InvalidJson)}

storeFixed ==
    <<now, start, end, minutes, time24, time12, goal, selectedDay, task, modalVars,
      notificationPermission, aiCall, toasts, summary, dailyPlan, isPlanModalOpen,
      coachingTips, aiOps>>

InitStore ==
    /\ now = FirstNowModal
    /\ start = NullStr
    /\ end = NullStr
    /\ minutes = Num(0)
    /\ time24 = Clock24(0, 0)
    /\ time12 = NullStr
    /\ goal = NoGoal
    /\ task = NullStr
    /\ ret = NoCall
    /\ selectedDay = NullDay
    /\ dayToDelete = NullStr
    /\ ModalUnmounted
    /\ notificationPermission = "default"
    /\ aiCall = NoAICall
    /\ toasts = <<>>
    /\ summary = NullStr
    /\ dailyPlan = NullPlan
    /\ isPlanModalOpen = FALSE
    /\ coachingTips = <<>>
    /\ aiOps = 0
    /\ storage \in [StorageKeys -> ForeignItems]
    /\ days = LoadOr(storage.dayTrackerData, <<>>)
    /\ taskOptions = LoadOr(storage.dayTrackerTasks, initialTaskOptions)
    /\ goals = LoadOr(storage.dayTrackerGoals, <<>>)
    /\ effects = StorageKeys

\* a render: the effects of the render before it have run by then
Rerender(keys) ==
    /\ storage' = Flushed(storage, effects, days, taskOptions, goals)
    /\ effects' = keys

\* handleSaveDay(updatedDay), lines 1081-1087
StoreSaveDay ==
    /\ \E date \in StoreDates, activities \in StoreActivities :
          /\ days' = handleSaveDay(days, [date |-> date, activities |-> activities])
          /\ ret' = [op |-> "handleSaveDay", val |-> date]
    /\ Rerender({"dayTrackerData"})
    /\ UNCHANGED <<storeFixed, dayToDelete, taskOptions, goals>>

\* handleDeleteRequest(date), line 1123
StoreDeleteRequest ==
    /\ \E i \in 1..Len(days) :
          /\ dayToDelete' = days[i].date
          /\ ret' = [op |-> "handleDeleteRequest", val |-> days[i].date]
    /\ Rerender({})
    /\ UNCHANGED <<storeFixed, days, taskOptions, goals>>

\* handleConfirmDelete(), line 1124
StoreConfirmDelete ==
    /\ ~Falsy(dayToDelete)
    /\ days' = WithoutDate(days, dayToDelete)
    /\ dayToDelete' = NullStr
    /\ ret' = [op |-> "handleConfirmDelete", val |-> dayToDelete]
    /\ Rerender({"dayTrackerData"})
    /\ UNCHANGED <<storeFixed, taskOptions, goals>>

\* handleAddNewTask(newTask), line 1125, with a task the catalog does not have
StoreAddNewTask ==
    /\ ~Includes(taskOptions, Yoga)
    /\ taskOptions' = handleAddNewTask(taskOptions, Yoga)
    /\ ret' = [op |-> "handleAddNewTask", val |-> Yoga]
    /\ Rerender({"dayTrackerTasks"})
    /\ UNCHANGED <<storeFixed, dayToDelete, days, goals>>

\* handleAddGoal(newGoal), lines 1127-1130
StoreAddGoal ==
    /\ Len(goals) < MaxGoals
    /\ goals' = Append(goals, [task |-> Exercise, frequency |-> 3, period |-> "week",
                               id |-> now])
    /\ ret' = [op |-> "handleAddGoal", val |-> now]
    /\ Rerender({"dayTrackerGoals"})
    /\ UNCHANGED <<storeFixed, dayToDelete, days, taskOptions>>

\* handleDeleteGoal(id), lines 1132-1136
StoreDeleteGoal ==
    /\ \E i \in 1..Len(goals) :
          /\ goals' = SelectSeq(goals, LAMBDA g : g.id # goals[i].id)
          /\ ret' = [op |-> "handleDeleteGoal", val |-> goals[i].id]
    /\ Rerender({"dayTrackerGoals"})
    /\ UNCHANGED <<storeFixed, dayToDelete, days, taskOptions>>

\* one of the effects of lines 1074-1076 runs
Persist(key) ==
    /\ key \in effects
    /\ storage' = [storage EXCEPT ![key] = Mirror(key, days, taskOptions, goals)]
    /\ effects' = effects \ {key}
    /\ ret' = [op |-> "useEffect", val |-> key]
    /\ UNCHANGED <<storeFixed, dayToDelete, days, taskOptions, goals>>

PersistDays == Persist("dayTrackerData")
PersistTasks == Persist("dayTrackerTasks")
PersistGoals == Persist("dayTrackerGoals")

\* the page is loaded again: App is constructed from what localStorage holds,
\* and the effects that waited are lost
Reload ==
    /\ days' = LoadOr(storage.dayTrackerData, <<>>)
    /\ taskOptions' = LoadOr(storage.dayTrackerTasks, initialTaskOptions)
    /\ goals' = LoadOr(storage.dayTrackerGoals, <<>>)
    /\ dayToDelete' = NullStr
    /\ effects' = StorageKeys
    /\ ret' = [op |-> "App", val |-> effects]
    /\ UNCHANGED <<storeFixed, storage>>

NextStore ==
    \/ StoreSaveDay
    \/ StoreDeleteRequest
    \/ StoreConfirmDelete
    \/ StoreAddNewTask
    \/ StoreAddGoal
    \/ StoreDeleteGoal
    \/ PersistDays
    \/ PersistTasks
    \/ PersistGoals
    \/ Reload

SpecStore == InitStore /\ [][NextStore]_vars

\* an effect that waits is run: React runs the effects of a render once the
\* browser has painted it
SpecStoreFair ==
    /\ SpecStore
    /\ WF_vars(PersistDays)
    /\ WF_vars(PersistTasks)
    /\ WF_vars(PersistGoals)

InSync(key) == storage[key] = Mirror(key, days, taskOptions, goals)
Unusable(item) == item \in ForeignItems
ReloadStep == ret'.op = "App" /\ effects' = StorageKeys /\ storage' = storage

\* C24: after every mutation of the Day collection, the task catalog or the
\* goal list, the item under the corresponding key is eventually rewritten to
\* equal the new value in memory (and equals it whenever no effect waits), so a
\* reload after completed operations restores the same Days, tasks and goals;
\* a missing or unparseable item loads as the empty list (days, goals) or the
\* default task list.
C24_StorageMirrorsAndRestores ==
    /\ (Unusable(storage.dayTrackerData) => days = <<>>)
    /\ (Unusable(storage.dayTrackerTasks) => taskOptions = initialTaskOptions)
    /\ (Unusable(storage.dayTrackerGoals) => goals = <<>>)
    /\ \A key \in StorageKeys : (key \in effects) ~> (key \notin effects /\ InSync(key))
    /\ [](\A key \in StorageKeys : key \notin effects => InSync(key))
    /\ [][ReloadStep =>
            /\ (effects = {} => UNCHANGED <<days, taskOptions, goals>>)
            /\ (Unusable(storage.dayTrackerData) => days' = <<>>)
            /\ (Unusable(storage.dayTrackerTasks) => taskOptions' = initialTaskOptions)
            /\ (Unusable(storage.dayTrackerGoals) => goals' = <<>>)]_vars

\* the page was loaded again and shows two Days, a goal and the added task
C24_Witness ==
    /\ ret.op = "App"
    /\ ret.val = {}
    /\ Len(days) = 2
    /\ Len(goals) = 1
    /\ Includes(taskOptions, Yoga)

=============================================================================
